---- MODULE Spec2Model ----
(***************************************************************************)
(* A model of the trading bot's trade-safety gating: the RiskEngine        *)
(* (src/app/risk/risk_engine.py), the order path place_or_preview          *)
(* (src/app/exchange/kraken_orders.py), the control loop (src/app/main.py) *)
(* and the control API's marker files (src/app/web/server.py).             *)
(*                                                                         *)
(* Amounts (USD, prices) are integers; the code's floats are compared the  *)
(* same way.  Time is a tick counter; a UTC day is DayLen ticks.           *)
(***************************************************************************)
EXTENDS Integers, Sequences, FiniteSets, TLC

\* ------------------------------------------------------------------ bounds
MaxNow == 1          \* the clock runs over 0..MaxNow
DayLen == 1          \* ticks per UTC day
MaxNotional == 2     \* notional_usd inputs are 0..MaxNotional
MaxPnl == 2          \* realized pnl inputs are -MaxPnl..0, drawdowns 0..MaxPnl
MaxRecorded == 3     \* record_trade is called while trades_today < MaxRecorded
MaxLog == 2          \* orders are attempted while trades.csv has fewer rows
MaxTrades == 4       \* compute_pnl walks trade lists of up to MaxTrades rows

Pairs == {"XBTUSD", "ETHUSD"}
NoPair == ""         \* pair=None (falsy, like "")
Modes == {"live", "dry_run"}
NoReason == "None"   \* pause_reason = None

CircuitBreakerReasons ==
    {"circuit breaker: realized pnl", "circuit breaker: max drawdown"}

\* The configurations the engine is constructed with.
LossLimits == {0, 1}
\* The quotes the ticker can answer: worthless, the configured notional, above it.
Prices == {0, 1, 2}
NoOrder == [pair |-> "", side |-> "", notional_usd |-> 0]

VARIABLES
    now,             \* wall clock (ticks)
    kill_file,       \* /run/trading/KILL_SWITCH exists
    pause_file,      \* /run/trading/PAUSE exists
    live_latch_file, \* /run/trading/LIVE_LATCH exists (main.py's latch)
    enable_live_file,\* /run/trading/ENABLE_LIVE_TRADING exists (place_or_preview's latch)
    kcfg_mode,       \* trading.mode of the kraken.yaml the bot loaded at start
    config_file_mode,\* trading.mode of the kraken.yaml on disk, as the API reads it
    risk,            \* the RiskEngine instance of the process
    manual_order,    \* the request in MANUAL_ORDER.json, or NoOrder
    state,           \* the ledger document /data/state.json, as last written in full
    saving,          \* the _save_state call in progress on the ledger file, or NoSave
    pnl,             \* compute_pnl's locals after the trades it has walked so far
    trades_csv,      \* the rows of /data/trades.csv
    pc,              \* where the control loop is in its cycle
    idx,             \* the pair of pair_keys the strategy loop is at
    last_loop_ok,    \* main's last_loop_ok
    last_op,         \* the call that produced this state, if one did
    recorded_today   \* record_trade calls made during the current UTC day

botVars == <<live_latch_file, enable_live_file, kcfg_mode, config_file_mode,
             manual_order, state, saving, pnl, trades_csv, pc, idx, last_loop_ok>>

vars == <<now, kill_file, pause_file, risk, last_op, recorded_today, botVars>>

NoOp == [op |-> "none"]

\* No _save_state call has the ledger file open.
NoSave == [written |-> "closed"]

\* ------------------------------------------------------------ RiskEngine
utc_day_key == now \div DayLen

RiskEngine_init(cap, per_day, per_pair, loss, dd) ==
    [ max_notional_usd_per_trade |-> cap,
      max_trades_per_day |-> per_day,
      max_trades_per_day_per_pair |-> per_pair,
      max_daily_loss_usd |-> loss,
      max_drawdown_usd |-> dd,
      day_key |-> utc_day_key,
      trades_today |-> 0,
      trades_today_by_pair |-> [p \in Pairs |-> 0],
      portfolio_realized |-> 0,
      portfolio_max_dd |-> 0,
      pause_reason |-> NoReason ]

roll_day_if_needed(self) ==
    IF utc_day_key # self.day_key
    THEN [self EXCEPT !.day_key = utc_day_key,
                      !.trades_today = 0,
                      !.trades_today_by_pair = [p \in Pairs |-> 0]]
    ELSE self

kill_switch_active(self) == kill_file

paused(self) == pause_file \/ self.pause_reason # NoReason

get_pause_reason(self) ==
    IF self.pause_reason # NoReason THEN self.pause_reason
    ELSE IF pause_file THEN "pause file present"
    ELSE ""

\* The engine and the pause file after _touch_pause; write_ok is whether the
\* write of the marker succeeded.
\* A mutant: the marker is written first and a failed write skips the rest.
touch_pause_write_first(self, reason, write_ok) ==
    IF write_ok
    THEN [ self |-> [self EXCEPT !.pause_reason = reason],
           pause_file |-> TRUE, raised |-> FALSE ]
    ELSE [ self |-> self, pause_file |-> pause_file, raised |-> FALSE ]

touch_pause(self, reason, write_ok) ==
    [ self |-> [self EXCEPT !.pause_reason = reason],
      pause_file |-> IF write_ok THEN TRUE ELSE pause_file,
      raised |-> FALSE ]

\* A mutant: the breakers clear the pause when the numbers have recovered.
update_portfolio_metrics_self_clearing(self, realized_pnl_usd, max_drawdown_usd, write_ok) ==
    LET s == [self EXCEPT !.portfolio_realized = realized_pnl_usd,
                          !.portfolio_max_dd = max_drawdown_usd]
    IN  IF s.max_daily_loss_usd > 0 /\ s.portfolio_realized <= -s.max_daily_loss_usd
        THEN touch_pause(s, "circuit breaker: realized pnl", write_ok)
        ELSE IF s.max_drawdown_usd > 0 /\ s.portfolio_max_dd >= s.max_drawdown_usd
        THEN touch_pause(s, "circuit breaker: max drawdown", write_ok)
        ELSE [self |-> [s EXCEPT !.pause_reason = NoReason],
              pause_file |-> pause_file, raised |-> FALSE]

\* A mutant: the loss breaker compares with < instead of <=.
update_portfolio_metrics_strict(self, realized_pnl_usd, max_drawdown_usd, write_ok) ==
    LET s == [self EXCEPT !.portfolio_realized = realized_pnl_usd,
                          !.portfolio_max_dd = max_drawdown_usd]
    IN  IF s.max_daily_loss_usd > 0 /\ s.portfolio_realized < -s.max_daily_loss_usd
        THEN touch_pause(s, "circuit breaker: realized pnl", write_ok)
        ELSE IF s.max_drawdown_usd > 0 /\ s.portfolio_max_dd >= s.max_drawdown_usd
        THEN touch_pause(s, "circuit breaker: max drawdown", write_ok)
        ELSE [self |-> s, pause_file |-> pause_file, raised |-> FALSE]

update_portfolio_metrics(self, realized_pnl_usd, max_drawdown_usd, write_ok) ==
    LET s == [self EXCEPT !.portfolio_realized = realized_pnl_usd,
                          !.portfolio_max_dd = max_drawdown_usd]
    IN  IF s.max_daily_loss_usd > 0 /\ s.portfolio_realized <= -s.max_daily_loss_usd
        THEN touch_pause(s, "circuit breaker: realized pnl", write_ok)
        ELSE IF s.max_drawdown_usd > 0 /\ s.portfolio_max_dd >= s.max_drawdown_usd
        THEN touch_pause(s, "circuit breaker: max drawdown", write_ok)
        ELSE [self |-> s, pause_file |-> pause_file, raised |-> FALSE]

RiskDecision(allowed, reason) == [allowed |-> allowed, reason |-> reason]

\* A mutant: the pause check runs before the kill-switch check.
can_trade_decide_pause_first(s, notional_usd, mode, pair) ==
    IF paused(s)
    THEN RiskDecision(FALSE, <<"paused: ", get_pause_reason(s)>>)
    ELSE IF kill_switch_active(s)
    THEN RiskDecision(FALSE, <<"kill switch active">>)
    ELSE IF notional_usd > s.max_notional_usd_per_trade
    THEN RiskDecision(FALSE, <<"max_notional_usd_per_trade exceeded">>)
    ELSE IF s.trades_today >= s.max_trades_per_day
    THEN RiskDecision(FALSE, <<"max trades/day reached">>)
    ELSE IF pair # NoPair
            /\ s.trades_today_by_pair[pair] >= s.max_trades_per_day_per_pair
    THEN RiskDecision(FALSE, <<"max trades/day per pair reached">>)
    ELSE RiskDecision(TRUE, <<"ok">>)

\* A mutant: the daily counts are checked before the notional cap.
can_trade_decide_counts_first(s, notional_usd, mode, pair) ==
    IF kill_switch_active(s)
    THEN RiskDecision(FALSE, <<"kill switch active">>)
    ELSE IF paused(s)
    THEN RiskDecision(FALSE, <<"paused: ", get_pause_reason(s)>>)
    ELSE IF s.trades_today >= s.max_trades_per_day
    THEN RiskDecision(FALSE, <<"max trades/day reached">>)
    ELSE IF pair # NoPair
            /\ s.trades_today_by_pair[pair] >= s.max_trades_per_day_per_pair
    THEN RiskDecision(FALSE, <<"max trades/day per pair reached">>)
    ELSE IF notional_usd > s.max_notional_usd_per_trade
    THEN RiskDecision(FALSE, <<"max_notional_usd_per_trade exceeded">>)
    ELSE RiskDecision(TRUE, <<"ok">>)

\* A mutant: the notional cap is compared with >= shifted by one (an off-by-one cap).
can_trade_decide_loose_cap(s, notional_usd, mode, pair) ==
    IF kill_switch_active(s)
    THEN RiskDecision(FALSE, <<"kill switch active">>)
    ELSE IF paused(s)
    THEN RiskDecision(FALSE, <<"paused: ", get_pause_reason(s)>>)
    ELSE IF notional_usd > s.max_notional_usd_per_trade + 1
    THEN RiskDecision(FALSE, <<"max_notional_usd_per_trade exceeded">>)
    ELSE IF s.trades_today >= s.max_trades_per_day
    THEN RiskDecision(FALSE, <<"max trades/day reached">>)
    ELSE IF pair # NoPair
            /\ s.trades_today_by_pair[pair] >= s.max_trades_per_day_per_pair
    THEN RiskDecision(FALSE, <<"max trades/day per pair reached">>)
    ELSE RiskDecision(TRUE, <<"ok">>)

\* The decision of can_trade on an engine whose day has been rolled.
can_trade_decide(s, notional_usd, mode, pair) ==
    IF kill_switch_active(s)
    THEN RiskDecision(FALSE, <<"kill switch active">>)
    ELSE IF paused(s)
    THEN RiskDecision(FALSE, <<"paused: ", get_pause_reason(s)>>)
    ELSE IF notional_usd > s.max_notional_usd_per_trade
    THEN RiskDecision(FALSE, <<"max_notional_usd_per_trade exceeded">>)
    ELSE IF s.trades_today >= s.max_trades_per_day
    THEN RiskDecision(FALSE, <<"max trades/day reached">>)
    ELSE IF pair # NoPair
            /\ s.trades_today_by_pair[pair] >= s.max_trades_per_day_per_pair
    THEN RiskDecision(FALSE, <<"max trades/day per pair reached">>)
    ELSE RiskDecision(TRUE, <<"ok">>)

can_trade(self, notional_usd, mode, pair) ==
    LET s == roll_day_if_needed(self)
    IN  [self |-> s, rd |-> can_trade_decide(s, notional_usd, mode, pair)]

\* A mutant: the counters are incremented without the rollover check.
record_trade_no_roll(self, pair) ==
    LET t == [self EXCEPT !.trades_today = @ + 1]
    IN  IF pair # NoPair
        THEN [t EXCEPT !.trades_today_by_pair[pair] = @ + 1]
        ELSE t

record_trade(self, pair) ==
    LET s == roll_day_if_needed(self)
        t == [s EXCEPT !.trades_today = @ + 1]
    IN  IF pair # NoPair
        THEN [t EXCEPT !.trades_today_by_pair[pair] = @ + 1]
        ELSE t

\* ------------------------------------------------------- configuration
\* kraken.yaml as the model's bot is configured (the code reads these keys).
pair_keys == <<"XBTUSD">>        \* kraken.pairs, normalized
quote_notional_usd == 1          \* trading.quote_notional_usd
max_spread_pct == 50             \* safety.max_spread_pct
max_slippage_pct == 100          \* safety.max_slippage_pct
cd_seconds == 1                  \* cooldown.hours_after_trade, in ticks
simulate == TRUE                 \* strategy.simulate_fills_in_dry_run
REQUIRE_LIVE_LATCH == TRUE       \* env REQUIRE_LIVE_LATCH, default "1"

\* ---------------------------------------------------------------- ledger
NoPosition == [base_volume |-> 0, entry_price |-> 0, present |-> FALSE]

\* A mutant: has_position reports that an entry exists, whatever its volume.
get_position_any_entry(st, pair) ==
    LET pos == st.positions[pair]
    IN  [has_position |-> pos.present,
         base_volume |-> IF pos.present THEN pos.base_volume ELSE 0,
         entry_price |-> IF pos.present THEN pos.entry_price ELSE 0]

get_position(st, pair) ==
    LET pos == st.positions[pair]
    IN  [has_position |-> pos.present /\ pos.base_volume > 0,
         base_volume |-> IF pos.present THEN pos.base_volume ELSE 0,
         entry_price |-> IF pos.present THEN pos.entry_price ELSE 0]

\* A mutant: a position is written only when no lot is open.
set_position_keeps_open_lot(st, pair, base_volume, entry_price) ==
    IF st.positions[pair].present /\ st.positions[pair].base_volume > 0
    THEN st
    ELSE [st EXCEPT !.positions[pair] =
            [base_volume |-> base_volume, entry_price |-> entry_price, present |-> TRUE]]

set_position(st, pair, base_volume, entry_price) ==
    [st EXCEPT !.positions[pair] =
        [base_volume |-> base_volume, entry_price |-> entry_price, present |-> TRUE]]

\* A mutant: clearing one position clears them all.
clear_position_all(st, pair) ==
    [st EXCEPT !.positions = [p \in Pairs |-> NoPosition]]

clear_position(st, pair) ==
    [st EXCEPT !.positions[pair] = NoPosition]

\* A mutant: no cooldown is ever read back from the ledger.
get_cooldown_until_unset(st, pair) == 0

get_cooldown_until(st, pair) == st.cooldowns[pair]

\* A mutant: the cooldown is stored as a duration, not as a time.
set_cooldown_duration(st, pair, seconds_from_now) ==
    [st EXCEPT !.cooldowns[pair] = seconds_from_now]

set_cooldown(st, pair, seconds_from_now) ==
    [st EXCEPT !.cooldowns[pair] = now + seconds_from_now]

\* ----------------------------------------------------------- compute_pnl
\* Dollar amounts are whole numbers of units, Grain units to 0.000001 USD, so
\* that amounts finer than the six decimals of the output exist.  Volumes are
\* whole lots.  The rows of the trade list come in the order _read_trades
\* sorted them in, by ts.
Grain == 3

\* _pair_round: float(f"{x:.6f}"), the nearest multiple of 0.000001.
pair_round(x) == Grain * ((2 * x + Grain) \div (2 * Grain))

\* _pair_round of the ratio n / d, in millionths.
pair_round_ratio(n, d) ==
    LET q == (n * 1000000) \div d
        r == (n * 1000000) % d
    IN  IF 2 * r < d THEN q
        ELSE IF 2 * r > d THEN q + 1
        ELSE IF q % 2 = 0 THEN q ELSE q + 1

NoMark == -1      \* the pair is not a key of marks

Max(a, b) == IF a >= b THEN a ELSE b
Min(a, b) == IF a <= b THEN a ELSE b

\* per_pair[pair] as created when the pair is first seen, before mark_price
\* is filled in; seen tells whether the pair is a key of per_pair.
PnlUnseen ==
    [seen |-> FALSE, realized_pnl_usd |-> 0, wins |-> 0, losses |-> 0,
     trades_closed |-> 0, open_position |-> FALSE, open_volume |-> 0,
     entry_price |-> 0]

\* A mutant: the portfolio starts with one win counted.
pnl_init_one_win ==
    [walked |-> 0,
     per_pair |-> [p \in Pairs |-> PnlUnseen],
     portfolio |-> [realized_pnl_usd |-> 0, wins |-> 1, losses |-> 0, trades_closed |-> 0],
     open_pos |-> [p \in Pairs |-> [vol |-> 0, entry_px |-> 0]],
     equity_points |-> <<>>,
     realized_equity |-> 0,
     peak_equity |-> 0,
     max_dd |-> 0]

\* The locals of compute_pnl before the first trade.
pnl_init ==
    [walked |-> 0,
     per_pair |-> [p \in Pairs |-> PnlUnseen],
     portfolio |-> [realized_pnl_usd |-> 0, wins |-> 0, losses |-> 0, trades_closed |-> 0],
     open_pos |-> [p \in Pairs |-> [vol |-> 0, entry_px |-> 0]],
     equity_points |-> <<>>,
     realized_equity |-> 0,
     peak_equity |-> 0,
     max_dd |-> 0]

\* A mutant: a sell for less than the open volume leaves the rest of the lot open.
pnl_close_partial(acc, t) ==
    LET entry_px == acc.open_pos[t.pair].entry_px
        entry_vol == acc.open_pos[t.pair].vol
        close_vol == IF t.volume > 0 THEN Min(entry_vol, t.volume) ELSE entry_vol
        gain == (t.price - entry_px) * close_vol
        win == IF gain >= 0 THEN 1 ELSE 0
        equity == acc.realized_equity + gain
        peak == Max(acc.peak_equity, equity)
        left == entry_vol - close_vol
    IN  [acc EXCEPT
            !.per_pair[t.pair].realized_pnl_usd = @ + gain,
            !.per_pair[t.pair].trades_closed = @ + 1,
            !.per_pair[t.pair].wins = @ + win,
            !.per_pair[t.pair].losses = @ + (1 - win),
            !.portfolio.realized_pnl_usd = @ + gain,
            !.portfolio.trades_closed = @ + 1,
            !.portfolio.wins = @ + win,
            !.portfolio.losses = @ + (1 - win),
            !.open_pos[t.pair] = [vol |-> left, entry_px |-> IF left > 0 THEN entry_px ELSE 0],
            !.per_pair[t.pair].open_position = left > 0,
            !.per_pair[t.pair].open_volume = left,
            !.per_pair[t.pair].entry_price = IF left > 0 THEN entry_px ELSE 0,
            !.realized_equity = equity,
            !.equity_points = Append(@, equity),
            !.peak_equity = peak,
            !.max_dd = Max(@, peak - equity)]

\* A mutant: the drawdown of the latest close replaces the maximum so far.
pnl_close_last_drawdown(acc, t) ==
    LET entry_px == acc.open_pos[t.pair].entry_px
        entry_vol == acc.open_pos[t.pair].vol
        close_vol == IF t.volume > 0 THEN Min(entry_vol, t.volume) ELSE entry_vol
        gain == (t.price - entry_px) * close_vol
        win == IF gain >= 0 THEN 1 ELSE 0
        equity == acc.realized_equity + gain
        peak == Max(acc.peak_equity, equity)
    IN  [acc EXCEPT
            !.per_pair[t.pair].realized_pnl_usd = @ + gain,
            !.per_pair[t.pair].trades_closed = @ + 1,
            !.per_pair[t.pair].wins = @ + win,
            !.per_pair[t.pair].losses = @ + (1 - win),
            !.portfolio.realized_pnl_usd = @ + gain,
            !.portfolio.trades_closed = @ + 1,
            !.portfolio.wins = @ + win,
            !.portfolio.losses = @ + (1 - win),
            !.open_pos[t.pair] = [vol |-> 0, entry_px |-> 0],
            !.per_pair[t.pair].open_position = FALSE,
            !.per_pair[t.pair].open_volume = 0,
            !.per_pair[t.pair].entry_price = 0,
            !.realized_equity = equity,
            !.equity_points = Append(@, equity),
            !.peak_equity = peak,
            !.max_dd = peak - equity]

\* The close of the open lot of t.pair by the sell t.
pnl_close(acc, t) ==
    LET entry_px == acc.open_pos[t.pair].entry_px
        entry_vol == acc.open_pos[t.pair].vol
        close_vol == IF t.volume > 0 THEN Min(entry_vol, t.volume) ELSE entry_vol
        gain == (t.price - entry_px) * close_vol
        win == IF gain >= 0 THEN 1 ELSE 0
        equity == acc.realized_equity + gain
        peak == Max(acc.peak_equity, equity)
    IN  [acc EXCEPT
            !.per_pair[t.pair].realized_pnl_usd = @ + gain,
            !.per_pair[t.pair].trades_closed = @ + 1,
            !.per_pair[t.pair].wins = @ + win,
            !.per_pair[t.pair].losses = @ + (1 - win),
            !.portfolio.realized_pnl_usd = @ + gain,
            !.portfolio.trades_closed = @ + 1,
            !.portfolio.wins = @ + win,
            !.portfolio.losses = @ + (1 - win),
            !.open_pos[t.pair] = [vol |-> 0, entry_px |-> 0],
            !.per_pair[t.pair].open_position = FALSE,
            !.per_pair[t.pair].open_volume = 0,
            !.per_pair[t.pair].entry_price = 0,
            !.realized_equity = equity,
            !.equity_points = Append(@, equity),
            !.peak_equity = peak,
            !.max_dd = Max(@, peak - equity)]

\* A mutant: every buy opens a lot, over an open one too.
pnl_walk_buy_overwrites(acc, t) ==
    LET a0 == [acc EXCEPT !.walked = @ + 1, !.per_pair[t.pair].seen = TRUE]
    IN  IF t.side = "buy"
        THEN [a0 EXCEPT
                !.open_pos[t.pair] = [vol |-> t.volume, entry_px |-> t.price],
                !.per_pair[t.pair].open_position = TRUE,
                !.per_pair[t.pair].open_volume = t.volume,
                !.per_pair[t.pair].entry_price = t.price]
        ELSE IF t.side = "sell" /\ a0.open_pos[t.pair].vol > 0
        THEN pnl_close(a0, t)
        ELSE a0

\* One pass of the loop over the trades: the locals after the trade t.
pnl_walk(acc, t) ==
    LET a0 == [acc EXCEPT !.walked = @ + 1, !.per_pair[t.pair].seen = TRUE]
    IN  IF t.side = "buy"
        THEN IF a0.open_pos[t.pair].vol <= 0
             THEN [a0 EXCEPT
                     !.open_pos[t.pair] = [vol |-> t.volume, entry_px |-> t.price],
                     !.per_pair[t.pair].open_position = TRUE,
                     !.per_pair[t.pair].open_volume = t.volume,
                     !.per_pair[t.pair].entry_price = t.price]
             ELSE a0
        ELSE IF t.side = "sell" /\ a0.open_pos[t.pair].vol > 0
        THEN pnl_close(a0, t)
        ELSE a0

\* A mutant: the entry price of the open lot is not looked at.
pnl_unrealized_any_entry(acc, marks, p) ==
    LET pos == acc.open_pos[p]
        mark == IF marks[p] = NoMark THEN 0 ELSE marks[p]
    IN  IF pos.vol > 0 /\ mark > 0
        THEN (mark - pos.entry_px) * pos.vol
        ELSE 0

\* The unrealized PnL of a pair at the end of the walk: from its open lot and
\* its mark, 0 when any of volume, entry price and mark is not positive.
pnl_unrealized(acc, marks, p) ==
    LET pos == acc.open_pos[p]
        mark == IF marks[p] = NoMark THEN 0 ELSE marks[p]
    IN  IF pos.vol > 0 /\ pos.entry_px > 0 /\ mark > 0
        THEN (mark - pos.entry_px) * pos.vol
        ELSE 0

RECURSIVE SumOver(_, _)
SumOver(f, S) ==
    IF S = {} THEN 0
    ELSE LET x == CHOOSE y \in S : TRUE IN f[x] + SumOver(f, S \ {x})

\* The points of the equity curve that are returned.
EquityCurveKeep == 200

LastPoints(points) ==
    IF Len(points) <= EquityCurveKeep THEN points
    ELSE SubSeq(points, Len(points) - EquityCurveKeep + 1, Len(points))

\* What compute_pnl returns at the end of the walk: the final rollups and the
\* rounding of the figures.  A pair that no trade named is not a key of pairs.
pnl_finish(acc, marks, ts) ==
    LET u == [p \in Pairs |-> pnl_unrealized(acc, marks, p)]
        unrealized == SumOver(u, Pairs)
        pf == acc.portfolio
    IN  [ts |-> ts,
         portfolio |->
            [realized_pnl_usd |-> pair_round(pf.realized_pnl_usd),
             unrealized_pnl_usd |-> pair_round(unrealized),
             net_pnl_usd |-> pair_round(pf.realized_pnl_usd + unrealized),
             wins |-> pf.wins,
             losses |-> pf.losses,
             trades_closed |-> pf.trades_closed,
             win_rate |-> IF pf.trades_closed > 0
                          THEN pair_round_ratio(pf.wins, pf.trades_closed) ELSE 0,
             max_drawdown_usd |-> pair_round(acc.max_dd)],
         pairs |->
            [p \in Pairs |->
                LET st == acc.per_pair[p]
                    mark == IF marks[p] = NoMark THEN 0 ELSE marks[p]
                IN  IF ~st.seen THEN [seen |-> FALSE]
                    ELSE [seen |-> TRUE,
                          realized_pnl_usd |-> pair_round(st.realized_pnl_usd),
                          unrealized_pnl_usd |-> pair_round(u[p]),
                          net_pnl_usd |-> pair_round(st.realized_pnl_usd + u[p]),
                          wins |-> st.wins,
                          losses |-> st.losses,
                          trades_closed |-> st.trades_closed,
                          win_rate |-> IF st.trades_closed > 0
                                       THEN pair_round_ratio(st.wins, st.trades_closed)
                                       ELSE 0,
                          open_position |-> st.open_position,
                          open_volume |-> st.open_volume,
                          entry_price |-> pair_round(st.entry_price),
                          mark_price |-> pair_round(mark)]],
         equity_curve_realized |-> LastPoints(acc.equity_points)]

RECURSIVE pnl_walk_all(_, _)
pnl_walk_all(acc, trades) ==
    IF trades = <<>> THEN acc
    ELSE pnl_walk_all(pnl_walk(acc, Head(trades)), Tail(trades))

\* A mutant: the marks are taken from the clock, not from the caller.
compute_pnl_clock_marks(trades, marks, ts) ==
    pnl_finish(pnl_walk_all(pnl_init, trades), [p \in Pairs |-> ts], ts)

\* compute_pnl(trades, marks), called at the time ts.
compute_pnl(trades, marks, ts) == pnl_finish(pnl_walk_all(pnl_init, trades), marks, ts)

\* ----------------------------------------------------------- build_order
\* A percentage is kept as a fraction <<numerator, denominator>>.
\* The value both percentages take when the mid price is not positive.
Sentinel == 999

calc_spread_pct(bid, ask) ==
    IF bid + ask <= 0 THEN <<Sentinel, 1>> ELSE <<200 * (ask - bid), bid + ask>>

slippage_pct(bid, ask, current) ==
    IF bid + ask <= 0 THEN <<Sentinel, 1>>
    ELSE LET d == 2 * current - (bid + ask)
         IN  <<100 * (IF d < 0 THEN -d ELSE d), bid + ask>>

PctAbove(pct, max) == pct[1] > max * pct[2]

\* "{:0.0f}".format(n / d): the nearest integer, ties to the even one
\* (lot_decimals = 0 for the model's instrument).
format_volume(n, d) ==
    LET q == n \div d
        r == n % d
    IN  IF 2 * r < d THEN q
        ELSE IF 2 * r > d THEN q + 1
        ELSE IF q % 2 = 0 THEN q ELSE q + 1

NoOverride == -1     \* base_volume_override = None
NoOrdermin == -1     \* the instrument defines no ordermin
NoPrice == -1        \* price = None

OrderDecision(pair, side, volume, price, mode, notional_usd, reason) ==
    [pair |-> pair, side |-> side, ordertype |-> "limit", volume |-> volume,
     price |-> price, mode |-> mode, notional_usd |-> notional_usd, reason |-> reason]

\* The keys of kraken.yaml that build_order reads, as the bot is configured.
KrakenConfig ==
    [quote_notional_usd |-> quote_notional_usd,
     max_spread_pct |-> max_spread_pct,
     max_slippage_pct |-> max_slippage_pct]

\* A mutant: the instrument's minimum order size is not looked at.
build_order_cfg_no_ordermin(cfg, mode, pair_key, side, base_volume_override, m, ordermin) ==
    IF PctAbove(calc_spread_pct(m.bid, m.ask), cfg.max_spread_pct)
    THEN OrderDecision(pair_key, side, 0, NoPrice, mode, cfg.quote_notional_usd,
                       <<"blocked: spread">>)
    ELSE IF PctAbove(slippage_pct(m.bid, m.ask, m.last), cfg.max_slippage_pct)
    THEN OrderDecision(pair_key, side, 0, NoPrice, mode, cfg.quote_notional_usd,
                       <<"blocked: slippage">>)
    ELSE IF side = "buy" /\ m.last <= 0
    THEN OrderDecision(pair_key, side, 0, NoPrice, mode, cfg.quote_notional_usd,
                       <<"blocked: invalid last">>)
    ELSE IF side # "buy" /\ (base_volume_override = NoOverride \/ base_volume_override <= 0)
    THEN OrderDecision(pair_key, side, 0, NoPrice, mode, 0,
                       <<"blocked: no position volume">>)
    ELSE OrderDecision(pair_key, side,
                       IF side = "buy" THEN format_volume(cfg.quote_notional_usd, m.last)
                       ELSE base_volume_override,
                       IF side = "buy" THEN m.ask ELSE m.bid,
                       mode,
                       IF side = "buy" THEN cfg.quote_notional_usd
                       ELSE base_volume_override * m.last,
                       <<"ok">>)

\* A mutant: the sizing checks come before the slippage check.
build_order_cfg_sizing_first(cfg, mode, pair_key, side, base_volume_override, m, ordermin) ==
    IF PctAbove(calc_spread_pct(m.bid, m.ask), cfg.max_spread_pct)
    THEN OrderDecision(pair_key, side, 0, NoPrice, mode, cfg.quote_notional_usd,
                       <<"blocked: spread">>)
    ELSE IF side = "buy" /\ m.last <= 0
    THEN OrderDecision(pair_key, side, 0, NoPrice, mode, cfg.quote_notional_usd,
                       <<"blocked: invalid last">>)
    ELSE IF side # "buy" /\ (base_volume_override = NoOverride \/ base_volume_override <= 0)
    THEN OrderDecision(pair_key, side, 0, NoPrice, mode, 0,
                       <<"blocked: no position volume">>)
    ELSE IF PctAbove(slippage_pct(m.bid, m.ask, m.last), cfg.max_slippage_pct)
    THEN OrderDecision(pair_key, side, 0, NoPrice, mode, cfg.quote_notional_usd,
                       <<"blocked: slippage">>)
    ELSE LET vol_str == IF side = "buy" THEN format_volume(cfg.quote_notional_usd, m.last)
                        ELSE base_volume_override
             notional == IF side = "buy" THEN cfg.quote_notional_usd
                         ELSE base_volume_override * m.last
         IN  IF ordermin # NoOrdermin /\ vol_str < ordermin
             THEN OrderDecision(pair_key, side, vol_str, NoPrice, mode, notional,
                                <<"blocked: below ordermin">>)
             ELSE OrderDecision(pair_key, side, vol_str,
                                IF side = "buy" THEN m.ask ELSE m.bid,
                                mode, notional, <<"ok">>)

\* build_order under the configuration cfg.
build_order_cfg(cfg, mode, pair_key, side, base_volume_override, m, ordermin) ==
    IF PctAbove(calc_spread_pct(m.bid, m.ask), cfg.max_spread_pct)
    THEN OrderDecision(pair_key, side, 0, NoPrice, mode, cfg.quote_notional_usd,
                       <<"blocked: spread">>)
    ELSE IF PctAbove(slippage_pct(m.bid, m.ask, m.last), cfg.max_slippage_pct)
    THEN OrderDecision(pair_key, side, 0, NoPrice, mode, cfg.quote_notional_usd,
                       <<"blocked: slippage">>)
    ELSE IF side = "buy" /\ m.last <= 0
    THEN OrderDecision(pair_key, side, 0, NoPrice, mode, cfg.quote_notional_usd,
                       <<"blocked: invalid last">>)
    ELSE IF side # "buy" /\ (base_volume_override = NoOverride \/ base_volume_override <= 0)
    THEN OrderDecision(pair_key, side, 0, NoPrice, mode, 0,
                       <<"blocked: no position volume">>)
    ELSE LET vol_str == IF side = "buy" THEN format_volume(cfg.quote_notional_usd, m.last)
                        ELSE base_volume_override
             notional == IF side = "buy" THEN cfg.quote_notional_usd
                         ELSE base_volume_override * m.last
         IN  IF ordermin # NoOrdermin /\ vol_str < ordermin
             THEN OrderDecision(pair_key, side, vol_str, NoPrice, mode, notional,
                                <<"blocked: below ordermin">>)
             ELSE OrderDecision(pair_key, side, vol_str,
                                IF side = "buy" THEN m.ask ELSE m.bid,
                                mode, notional, <<"ok">>)

build_order(mode, pair_key, side, base_volume_override, m, ordermin) ==
    build_order_cfg(KrakenConfig, mode, pair_key, side, base_volume_override, m, ordermin)

\* ------------------------------------------------------ place_or_preview
live_latch_enabled == enable_live_file

\* The outcome of place_or_preview: the decision returned (none when the
\* AddOrder request raised), the engine afterwards, whether an AddOrder request
\* was sent and whether record_trade was called.  resp is the exchange's
\* answer to AddOrder: "ok", "error" or "raise" (no answer).
Outcome(od, self, sent, recorded, raised) ==
    [od |-> od, risk |-> self, sent |-> sent, recorded |-> recorded, raised |-> raised]

\* A mutant: the live branch does not look at the latch.
place_or_preview_no_latch(mode, self, pair_key, side, base_volume_override, m, ordermin, resp) ==
    LET od == build_order(mode, pair_key, side, base_volume_override, m, ordermin)
        r == can_trade(self, od.notional_usd, od.mode, pair_key)
    IN  IF od.reason # <<"ok">>
        THEN Outcome(od, self, FALSE, FALSE, FALSE)
        ELSE IF ~r.rd.allowed
        THEN Outcome([od EXCEPT !.reason = <<"blocked by risk: ">> \o r.rd.reason],
                     r.self, FALSE, FALSE, FALSE)
        ELSE IF od.mode # "live"
        THEN Outcome([od EXCEPT !.reason = <<"dry-run">>], r.self, FALSE, FALSE, FALSE)
        ELSE IF resp = "raise"
        THEN Outcome(od, r.self, TRUE, FALSE, TRUE)
        ELSE IF resp = "error"
        THEN Outcome([od EXCEPT !.reason = <<"AddOrder error: ">>],
                     r.self, TRUE, FALSE, FALSE)
        ELSE Outcome([od EXCEPT !.reason = <<"LIVE order placed">>],
                     record_trade(r.self, pair_key), TRUE, TRUE, FALSE)

place_or_preview(mode, self, pair_key, side, base_volume_override, m, ordermin, resp) ==
    LET od == build_order(mode, pair_key, side, base_volume_override, m, ordermin)
        r == can_trade(self, od.notional_usd, od.mode, pair_key)
    IN  IF od.reason # <<"ok">>
        THEN Outcome(od, self, FALSE, FALSE, FALSE)
        ELSE IF ~r.rd.allowed
        THEN Outcome([od EXCEPT !.reason = <<"blocked by risk: ">> \o r.rd.reason],
                     r.self, FALSE, FALSE, FALSE)
        ELSE IF od.mode # "live"
        THEN Outcome([od EXCEPT !.reason = <<"dry-run">>], r.self, FALSE, FALSE, FALSE)
        ELSE IF ~live_latch_enabled
        THEN Outcome([od EXCEPT !.reason = <<"blocked: live latch not enabled">>],
                     r.self, FALSE, FALSE, FALSE)
        ELSE IF resp = "raise"
        THEN Outcome(od, r.self, TRUE, FALSE, TRUE)
        ELSE IF resp = "error"
        THEN Outcome([od EXCEPT !.reason = <<"AddOrder error: ">>],
                     r.self, TRUE, FALSE, FALSE)
        ELSE Outcome([od EXCEPT !.reason = <<"LIVE order placed">>],
                     record_trade(r.self, pair_key), TRUE, TRUE, FALSE)

\* ------------------------------------------------------------- main.py
is_paused == pause_file
\* A mutant: the kill switch is not looked at.
is_killed_never == FALSE
is_killed == kill_file
live_latch_present == live_latch_file
get_trading_mode == kcfg_mode

allow_live ==
    IF get_trading_mode # "live" THEN FALSE
    ELSE IF is_killed THEN FALSE
    ELSE IF REQUIRE_LIVE_LATCH /\ ~live_latch_present THEN FALSE
    ELSE TRUE

\* The trading mode of the configuration handed to place_or_preview.
safe_kcfg_for_orders ==
    IF get_trading_mode # "live" THEN get_trading_mode
    ELSE IF allow_live THEN get_trading_mode
    ELSE "dry_run"

Executed == {<<"dry-run">>, <<"LIVE order placed">>}

\* A mutant: the trade log is opened for writing, not for appending.
log_trade_csv_rewrites(log, pair_key, side, od, m) ==
    <<[pair |-> pair_key, side |-> side, volume |-> od.volume,
       price |-> IF m.last # 0 THEN m.last ELSE od.price,
       notional_usd |-> quote_notional_usd, mode |-> od.mode]>>

\* log_trade_csv / append_trade: one row appended.  Rows are kept in the order
\* they were appended, which is the order of their ts.
log_trade_csv(log, pair_key, side, od, m) ==
    Append(log, [pair |-> pair_key, side |-> side, volume |-> od.volume,
                 price |-> IF m.last # 0 THEN m.last ELSE od.price,
                 notional_usd |-> quote_notional_usd, mode |-> od.mode])

\* A mutant: the cooldown is set whatever place_or_preview returned.
ledger_after_always_cooldown(st, pair_key, side, od, m) ==
    LET s1 == set_cooldown(st, pair_key, cd_seconds)
    IN  IF od.mode # "live" /\ simulate /\ od.reason = <<"dry-run">>
        THEN IF side = "buy"
             THEN IF m.last > 0 THEN set_position(s1, pair_key, od.volume, m.last) ELSE s1
             ELSE clear_position(s1, pair_key)
        ELSE s1

\* The ledger after the cooldown and position updates that follow an order.
ledger_after(st, pair_key, side, od, m) ==
    LET s1 == IF od.reason \in Executed THEN set_cooldown(st, pair_key, cd_seconds) ELSE st
    IN  IF od.mode # "live" /\ simulate /\ od.reason = <<"dry-run">>
        THEN IF side = "buy"
             THEN IF m.last > 0 THEN set_position(s1, pair_key, od.volume, m.last) ELSE s1
             ELSE clear_position(s1, pair_key)
        ELSE s1

\* decide(): the signal from the moving averages (trend) and the position.
decide(trend, has_position) ==
    IF trend = "up" /\ ~has_position THEN "buy"
    ELSE IF trend = "down" /\ has_position THEN "sell"
    ELSE "hold"

\* The ledger before any write: no position and no cooldown for any pair.
ConfiguredPairs == {pair_keys[i] : i \in 1..Len(pair_keys)}

EmptyState ==
    [positions |-> [p \in ConfiguredPairs |-> NoPosition],
     cooldowns |-> [p \in ConfiguredPairs |-> 0]]

\* ------------------------------------------------- the engine's callers
RiskCanTrade ==
    \E notional_usd \in 0..MaxNotional, mode \in Modes, pair \in Pairs \cup {NoPair} :
        LET r == can_trade(risk, notional_usd, mode, pair)
        IN  /\ risk' = r.self
            /\ last_op' = [op |-> "can_trade", notional_usd |-> notional_usd,
                           pair |-> pair, rd |-> r.rd]
            /\ UNCHANGED <<now, kill_file, pause_file, recorded_today, botVars>>

RiskRecordTrade ==
    \E pair \in Pairs \cup {NoPair} :
        /\ roll_day_if_needed(risk).trades_today < MaxRecorded
        /\ risk' = record_trade(risk, pair)
        /\ recorded_today' = recorded_today + 1
        /\ last_op' = [op |-> "record_trade", pair |-> pair]
        /\ UNCHANGED <<now, kill_file, pause_file, botVars>>

RiskUpdatePortfolioMetrics ==
    \E realized \in (-MaxPnl)..0, dd \in 0..MaxPnl, write_ok \in BOOLEAN :
        LET r == update_portfolio_metrics(risk, realized, dd, write_ok)
        IN  /\ risk' = r.self
            /\ pause_file' = r.pause_file
            /\ last_op' = [op |-> "update_portfolio_metrics", write_ok |-> write_ok,
                           raised |-> r.raised]
            /\ UNCHANGED <<now, kill_file, recorded_today, botVars>>

\* ------------------------------------------------ the control API, the clock
ApiPause ==
    /\ pause_file' = TRUE
    /\ last_op' = NoOp
    /\ UNCHANGED <<now, kill_file, risk, recorded_today, botVars>>

ApiResume ==
    /\ pause_file' = FALSE
    /\ last_op' = [op |-> "resume"]
    /\ UNCHANGED <<now, kill_file, risk, recorded_today, botVars>>

ApiKill ==
    /\ kill_file' = TRUE
    /\ last_op' = NoOp
    /\ UNCHANGED <<now, pause_file, risk, recorded_today, botVars>>

ApiUnkill ==
    /\ kill_file' = FALSE
    /\ last_op' = NoOp
    /\ UNCHANGED <<now, pause_file, risk, recorded_today, botVars>>

Tick ==
    /\ now < MaxNow
    /\ now' = now + 1
    /\ recorded_today' = IF (now + 1) \div DayLen # now \div DayLen
                         THEN 0 ELSE recorded_today
    /\ last_op' = NoOp
    /\ UNCHANGED <<kill_file, pause_file, risk, botVars>>

InitRisk ==
    /\ saving = NoSave
    /\ pnl = pnl_init
    /\ now = 0
    /\ kill_file \in BOOLEAN
    /\ pause_file \in BOOLEAN
    /\ \E loss \in LossLimits, dd \in LossLimits :
           risk = RiskEngine_init(1, 2, 1, loss, dd)
    /\ last_op = NoOp
    /\ recorded_today = 0
    /\ live_latch_file = FALSE
    /\ enable_live_file = FALSE
    /\ kcfg_mode = "dry_run"
    /\ config_file_mode = "dry_run"
    /\ manual_order = NoOrder
    /\ state = EmptyState
    /\ trades_csv = <<>>
    /\ pc = "manual"
    /\ idx = 1
    /\ last_loop_ok = TRUE

NextRisk ==
    \/ RiskCanTrade
    \/ RiskRecordTrade
    \/ RiskUpdatePortfolioMetrics
    \/ ApiPause
    \/ ApiResume
    \/ ApiKill
    \/ ApiUnkill
    \/ Tick

SpecRisk == InitRisk /\ [][NextRisk]_vars

\* ------------------------------------------------------ the control loop
\* What the exchange and the market feed answer during one step.
Markets == {[bid |-> b, ask |-> a, last |-> l] : b \in Prices, a \in Prices, l \in Prices}
Quotes == {m \in Markets : m.bid <= m.ask}
Ordermins == {NoOrdermin, 1}
Responses == {"ok", "error", "raise"}
Trends == {"up", "down", "flat"}

\* A step of the loop after which the per-pair loop goes on with the next pair.
AfterPair ==
    IF idx < Len(pair_keys)
    THEN pc' = "strategy" /\ idx' = idx + 1
    ELSE pc' = "finish" /\ idx' = 1

\* An exception reaches the loop's except clause: the rest of the cycle is skipped.
LoopError ==
    /\ pc' = "finish"
    /\ idx' = 1
    /\ last_loop_ok' = FALSE

\* The answers the exchange can give: one of Responses when the call sends an
\* AddOrder request, and none to choose from when it sends nothing.
AddOrderResponses(pair_key, side, base_volume_override, m, ordermin) ==
    IF place_or_preview(safe_kcfg_for_orders, risk, pair_key, side,
                        base_volume_override, m, ordermin, "ok").sent
    THEN Responses ELSE {"ok"}

\* place_or_preview and what main does with its result, for the strategy loop
\* (manual = FALSE) and for a manual order (manual = TRUE).
PlaceOrder(manual, pair_key, side, base_volume_override) ==
    /\ Len(trades_csv) < MaxLog
    /\ \E m \in Quotes, ordermin \in Ordermins :
        \E resp \in AddOrderResponses(pair_key, side, base_volume_override, m, ordermin) :
        LET out == place_or_preview(safe_kcfg_for_orders, risk, pair_key, side,
                                    base_volume_override, m, ordermin, resp)
        IN  /\ risk' = out.risk
            /\ recorded_today' = recorded_today + (IF out.recorded THEN 1 ELSE 0)
            /\ last_op' = [op |-> "place_or_preview", manual |-> manual,
                           pair |-> pair_key, side |-> side, mode |-> out.od.mode,
                           notional_usd |-> out.od.notional_usd,
                           volume |-> out.od.volume, reason |-> out.od.reason,
                           sent |-> out.sent, raised |-> out.raised]
            /\ IF out.raised
               THEN /\ LoopError
                    /\ UNCHANGED <<state, trades_csv, manual_order>>
               ELSE /\ state' = ledger_after(state, pair_key, side, out.od, m)
                    /\ trades_csv' = IF out.od.reason \in Executed
                                     THEN log_trade_csv(trades_csv, pair_key, side, out.od, m)
                                     ELSE trades_csv
                    /\ IF manual
                       THEN /\ manual_order' = NoOrder
                            /\ pc' = "strategy" /\ idx' = 1
                            /\ UNCHANGED last_loop_ok
                       ELSE /\ AfterPair
                            /\ UNCHANGED <<manual_order, last_loop_ok>>

\* The manual-order block at the top of a cycle.
ManualOrderStep ==
    /\ pc = "manual"
    /\ UNCHANGED <<pnl, saving, now, kill_file, pause_file, live_latch_file, enable_live_file,
                   kcfg_mode, config_file_mode>>
    /\ IF manual_order = NoOrder \/ (~is_killed /\ is_paused)
       THEN /\ pc' = "strategy" /\ idx' = 1 /\ last_loop_ok' = TRUE
            /\ last_op' = IF manual_order = NoOrder THEN NoOp
                          ELSE [op |-> "manual_order", outcome |-> "queued"]
            /\ UNCHANGED <<risk, recorded_today, state, trades_csv, manual_order>>
       ELSE IF \/ is_killed
               \/ manual_order.side \notin {"buy", "sell"}
               \/ manual_order.pair \notin ConfiguredPairs
               \/ manual_order.notional_usd <= 0
               \/ /\ manual_order.side = "sell"
                  /\ ~get_position(state, manual_order.pair).has_position
       THEN /\ manual_order' = NoOrder
            /\ pc' = "strategy" /\ idx' = 1
            /\ last_op' = [op |-> "manual_order", outcome |-> "deleted"]
            /\ UNCHANGED <<risk, recorded_today, state, trades_csv, last_loop_ok>>
       ELSE \E net_ok \in BOOLEAN :
            IF net_ok
            THEN PlaceOrder(TRUE, manual_order.pair, manual_order.side,
                            IF manual_order.side = "sell"
                            THEN get_position(state, manual_order.pair).base_volume
                            ELSE NoOverride)
            ELSE /\ LoopError
                 /\ last_op' = NoOp
                 /\ UNCHANGED <<risk, recorded_today, state, trades_csv, manual_order>>

\* Why the strategy loop goes on to the next pair without an order: the first
\* of its continue statements that applies.
SkipReason(pair_key, trend, action) ==
    IF get_cooldown_until(state, pair_key) > now THEN "cooldown"
    ELSE IF trend = "short" THEN "candles"
    ELSE IF action = "hold" THEN "hold"
    ELSE IF is_killed THEN "killed"
    ELSE "paused"

\* A mutant: the strategy loop does not look at the cooldown.
StrategyStep_ignores_cooldown ==
    /\ pc = "strategy"
    /\ UNCHANGED <<pnl, saving, now, kill_file, pause_file, live_latch_file, enable_live_file,
                   kcfg_mode, config_file_mode>>
    /\ LET pair_key == pair_keys[idx]
           pos == get_position(state, pair_key)
       IN  \E trend \in Trends \cup {"short", "error"} :
            LET action == decide(trend, pos.has_position)
            IN  IF \/ trend = "short"
                   \/ (trend # "error" /\ (action = "hold" \/ is_killed \/ is_paused))
                THEN /\ AfterPair
                     /\ last_op' = [op |-> "skip", pair |-> pair_key,
                                    why |-> SkipReason(pair_key, trend, action)]
                     /\ UNCHANGED <<risk, recorded_today, state, trades_csv,
                                    manual_order, last_loop_ok>>
                ELSE IF trend = "error"
                THEN /\ LoopError
                     /\ last_op' = NoOp
                     /\ UNCHANGED <<risk, recorded_today, state, trades_csv, manual_order>>
                ELSE PlaceOrder(FALSE, pair_key, action,
                                IF action = "sell" THEN pos.base_volume ELSE NoOverride)

\* One iteration of the per-pair strategy loop.
StrategyStep ==
    /\ pc = "strategy"
    /\ UNCHANGED <<pnl, saving, now, kill_file, pause_file, live_latch_file, enable_live_file,
                   kcfg_mode, config_file_mode>>
    /\ LET pair_key == pair_keys[idx]
           pos == get_position(state, pair_key)
       IN  \E trend \in Trends \cup {"short", "error"} :
            LET action == decide(trend, pos.has_position)
            IN  IF \/ get_cooldown_until(state, pair_key) > now
                   \/ trend = "short"
                   \/ (trend # "error" /\ (action = "hold" \/ is_killed \/ is_paused))
                THEN /\ AfterPair
                     /\ last_op' = [op |-> "skip", pair |-> pair_key,
                                    why |-> SkipReason(pair_key, trend, action)]
                     /\ UNCHANGED <<risk, recorded_today, state, trades_csv,
                                    manual_order, last_loop_ok>>
                ELSE IF trend = "error"
                THEN /\ LoopError
                     /\ last_op' = NoOp
                     /\ UNCHANGED <<risk, recorded_today, state, trades_csv, manual_order>>
                ELSE PlaceOrder(FALSE, pair_key, action,
                                IF action = "sell" THEN pos.base_volume ELSE NoOverride)

\* The end of a cycle: ai_call, the status snapshot (which reports last_loop_ok),
\* the poll sleep, and the reset of last_loop_ok at the top of the next cycle.
FinishCycle ==
    /\ pc = "finish"
    /\ last_loop_ok' = TRUE
    /\ pc' = "manual"
    /\ last_op' = NoOp
    /\ UNCHANGED <<pnl, saving, now, kill_file, pause_file, live_latch_file, enable_live_file,
                   kcfg_mode, config_file_mode, risk, recorded_today, state,
                   trades_csv, manual_order, idx>>

\* ------------------------------------------- the operator and the API
OperatorLiveLatch ==
    /\ \E b \in BOOLEAN : live_latch_file' = b
    /\ last_op' = NoOp
    /\ UNCHANGED <<pnl, saving, now, kill_file, pause_file, enable_live_file, risk, recorded_today>>
    /\ UNCHANGED <<kcfg_mode, config_file_mode, manual_order, state, trades_csv,
                   pc, idx, last_loop_ok>>

OperatorEnableLive ==
    /\ \E b \in BOOLEAN : enable_live_file' = b
    /\ last_op' = NoOp
    /\ UNCHANGED <<pnl, saving, now, kill_file, pause_file, live_latch_file, risk, recorded_today>>
    /\ UNCHANGED <<kcfg_mode, config_file_mode, manual_order, state, trades_csv,
                   pc, idx, last_loop_ok>>

ManualRequests ==
    {[pair |-> "XBTUSD", side |-> "buy", notional_usd |-> 1],
     [pair |-> "XBTUSD", side |-> "sell", notional_usd |-> 1],
     [pair |-> "XBTUSD", side |-> "hold", notional_usd |-> 1],
     [pair |-> "ETHUSD", side |-> "buy", notional_usd |-> 1],
     [pair |-> "XBTUSD", side |-> "buy", notional_usd |-> 0]}

ApiManualExecute ==
    /\ config_file_mode = "dry_run"
    /\ \E req \in ManualRequests : manual_order' = req
    /\ last_op' = NoOp
    /\ UNCHANGED <<pnl, saving, now, kill_file, pause_file, live_latch_file, enable_live_file,
                   risk, recorded_today, kcfg_mode, config_file_mode, state,
                   trades_csv, pc, idx, last_loop_ok>>

Init ==
    /\ saving = NoSave
    /\ pnl = pnl_init
    /\ now = 0
    /\ kill_file = FALSE
    /\ pause_file = FALSE
    /\ live_latch_file = FALSE
    /\ enable_live_file = FALSE
    /\ kcfg_mode \in Modes
    /\ config_file_mode \in Modes
    /\ risk = RiskEngine_init(1, 2, 2, 0, 0)
    /\ last_op = NoOp
    /\ recorded_today = 0
    /\ manual_order = NoOrder
    /\ state = EmptyState
    /\ trades_csv = <<>>
    /\ pc = "manual"
    /\ idx = 1
    /\ last_loop_ok = TRUE

Next ==
    \/ ManualOrderStep
    \/ StrategyStep
    \/ FinishCycle
    \/ ApiManualExecute
    \/ ApiPause
    \/ ApiResume
    \/ ApiKill
    \/ ApiUnkill
    \/ OperatorLiveLatch
    \/ OperatorEnableLive
    \/ Tick

Spec == Init /\ [][Next]_vars

\* ------------------------------------------------------ the ledger's callers
\* The ledger functions called one at a time by any caller, on a ledger file
\* that does not exist at first (_load_state answers {}).
Volumes == {0, 1, 2}

NoLedgerFile ==
    [positions |-> [p \in Pairs |-> NoPosition],
     cooldowns |-> [p \in Pairs |-> 0]]

LedgerFrame ==
    UNCHANGED <<pnl, saving, now, kill_file, pause_file, risk, recorded_today, live_latch_file,
                enable_live_file, kcfg_mode, config_file_mode, manual_order,
                trades_csv, pc, idx, last_loop_ok>>

LedgerSetPosition ==
    /\ \E pair \in Pairs, base_volume \in Volumes, entry_price \in Prices :
        /\ state' = set_position(state, pair, base_volume, entry_price)
        /\ last_op' = [op |-> "set_position", pair |-> pair,
                       base_volume |-> base_volume, entry_price |-> entry_price]
    /\ LedgerFrame

LedgerClearPosition ==
    /\ \E pair \in Pairs :
        /\ state' = clear_position(state, pair)
        /\ last_op' = [op |-> "clear_position", pair |-> pair,
                       had |-> state.positions[pair].present]
    /\ LedgerFrame

LedgerSetCooldown ==
    /\ \E pair \in Pairs, seconds_from_now \in {0, cd_seconds} :
        /\ state' = set_cooldown(state, pair, seconds_from_now)
        /\ last_op' = [op |-> "set_cooldown", pair |-> pair,
                       until |-> now + seconds_from_now]
    /\ LedgerFrame

InitLedger ==
    /\ saving = NoSave
    /\ pnl = pnl_init
    /\ now = 0
    /\ kill_file = FALSE
    /\ pause_file = FALSE
    /\ live_latch_file = FALSE
    /\ enable_live_file = FALSE
    /\ kcfg_mode = "dry_run"
    /\ config_file_mode = "dry_run"
    /\ risk = RiskEngine_init(1, 2, 2, 0, 0)
    /\ last_op = NoOp
    /\ recorded_today = 0
    /\ manual_order = NoOrder
    /\ state = NoLedgerFile
    /\ trades_csv = <<>>
    /\ pc = "manual"
    /\ idx = 1
    /\ last_loop_ok = TRUE

NextLedger ==
    \/ LedgerSetPosition
    \/ LedgerClearPosition
    \/ LedgerSetCooldown
    \/ Tick

SpecLedger == InitLedger /\ [][NextLedger]_vars

\* ------------------------------------------- _save_state, one step at a time
\* _save_state opens the ledger file for writing, which truncates it, lets
\* json.dump write the document into the file object's buffer, and closes the
\* file, which writes out what is left.  Another process may read the file
\* between any two of these steps.

\* The documents a set_position, clear_position or set_cooldown call hands to
\* _save_state when the ledger holds st.
LedgerWrites(st) ==
    {set_position(st, pair, v, e) : pair \in Pairs, v \in Volumes, e \in Prices}
    \cup {clear_position(st, pair) : pair \in Pairs}
    \cup {set_cooldown(st, pair, cd_seconds) : pair \in Pairs}

\* What the ledger file holds: the last document written in full, nothing, or
\* the beginning of the document being written.
FileContent ==
    IF saving = NoSave THEN <<"document", state>>
    ELSE IF saving.written = "none" THEN <<"empty">>
    ELSE <<"partial", saving.doc>>

SaveStateFrame ==
    UNCHANGED <<pnl, now, kill_file, pause_file, risk, recorded_today, live_latch_file,
                enable_live_file, kcfg_mode, config_file_mode, manual_order,
                trades_csv, pc, idx, last_loop_ok>>

\* open(STATE_PATH, "w") in a ledger write: the file is empty from here on.
SaveStateOpen ==
    /\ saving = NoSave
    /\ \E doc \in LedgerWrites(state) : saving' = [doc |-> doc, written |-> "none"]
    /\ last_op' = NoOp
    /\ UNCHANGED state
    /\ SaveStateFrame

\* json.dump filled the buffer: the beginning of the document reaches the file.
SaveStateFlush ==
    /\ saving # NoSave
    /\ saving.written = "none"
    /\ saving' = [saving EXCEPT !.written = "part"]
    /\ last_op' = NoOp
    /\ UNCHANGED state
    /\ SaveStateFrame

\* Leaving the with block closes the file: the whole document is in it.
SaveStateClose ==
    /\ saving # NoSave
    /\ state' = saving.doc
    /\ saving' = NoSave
    /\ last_op' = NoOp
    /\ SaveStateFrame

\* Another process reads the ledger file.
ReaderLoad ==
    /\ last_op' = [op |-> "load", seen |-> FileContent]
    /\ UNCHANGED <<state, saving>>
    /\ SaveStateFrame

NextSaveState ==
    \/ SaveStateOpen
    \/ SaveStateFlush
    \/ SaveStateClose
    \/ ReaderLoad
    \/ Tick

SpecSaveState == InitLedger /\ [][NextSaveState]_vars

\* ----------------------------------------------------- build_order's callers
\* build_order called with any configuration, ticker and instrument data.
Configs ==
    {[quote_notional_usd |-> 1, max_spread_pct |-> sp, max_slippage_pct |-> sl] :
        sp \in {0, max_spread_pct, Sentinel}, sl \in {0, max_slippage_pct, Sentinel}}

Overrides == {NoOverride} \cup Volumes

\* The inputs of the call: the configuration, the trading mode, the side, the
\* volume to sell, the ticker and the instrument's ordermin.
BuildOrderInputs ==
    [cfg : Configs, mode : Modes, side : {"buy", "sell"},
     base_volume_override : Overrides, m : Markets, ordermin : Ordermins]

BuildOrderCall ==
    /\ last_op.op = "inputs"
    /\ last_op' = [op |-> "build_order", cfg |-> last_op.inp.cfg,
                   side |-> last_op.inp.side,
                   base_volume_override |-> last_op.inp.base_volume_override,
                   m |-> last_op.inp.m, ordermin |-> last_op.inp.ordermin,
                   od |-> build_order_cfg(last_op.inp.cfg, last_op.inp.mode, "XBTUSD",
                                          last_op.inp.side,
                                          last_op.inp.base_volume_override,
                                          last_op.inp.m, last_op.inp.ordermin)]
    /\ UNCHANGED <<now, kill_file, pause_file, risk, recorded_today, botVars>>

InitOrder ==
    /\ \E inp \in BuildOrderInputs : last_op = [op |-> "inputs", inp |-> inp]
    /\ saving = NoSave
    /\ pnl = pnl_init
    /\ now = 0
    /\ kill_file = FALSE
    /\ pause_file = FALSE
    /\ live_latch_file = FALSE
    /\ enable_live_file = FALSE
    /\ kcfg_mode = "dry_run"
    /\ config_file_mode = "dry_run"
    /\ risk = RiskEngine_init(1, 2, 2, 0, 0)
    /\ recorded_today = 0
    /\ manual_order = NoOrder
    /\ state = NoLedgerFile
    /\ trades_csv = <<>>
    /\ pc = "manual"
    /\ idx = 1
    /\ last_loop_ok = TRUE

NextOrder == BuildOrderCall

SpecOrder == InitOrder /\ [][NextOrder]_vars

\* ----------------------------------------------------- compute_pnl's callers
\* compute_pnl on any trade list and any marks.  The walk is taken one trade at
\* a time: pnl holds the locals after the rows walked so far, and a call
\* returns what the final rollups make of them, so that the calls on a list
\* and on the same list with one more row are both in the model.
PnlPrices == {0, 1, 4}

PnlRows ==
    [pair : Pairs, side : {"buy", "sell"}, volume : Volumes, price : PnlPrices]

PnlMarks == [Pairs -> {NoMark, 0, 2}]

PnlFrame ==
    UNCHANGED <<now, kill_file, pause_file, risk, recorded_today, live_latch_file,
                enable_live_file, kcfg_mode, config_file_mode, manual_order, state,
                saving, trades_csv, pc, idx, last_loop_ok>>

PnlWalkTrade ==
    /\ pnl.walked < MaxTrades
    /\ \E t \in PnlRows :
        /\ pnl' = pnl_walk(pnl, t)
        /\ last_op' = [op |-> "pnl_walk", t |-> t]
    /\ PnlFrame

PnlReturn ==
    /\ \E marks \in PnlMarks :
        last_op' = [op |-> "compute_pnl", marks |-> marks,
                    out |-> pnl_finish(pnl, marks, now)]
    /\ UNCHANGED pnl
    /\ PnlFrame

NextPnl ==
    \/ PnlWalkTrade
    \/ PnlReturn

SpecPnl == InitLedger /\ [][NextPnl]_vars

\* ---------------------------------------------------------------------------
\* compute_pnl called twice by one caller on the trade list and the marks it
\* holds, while the wall clock runs.  last_op holds the caller's trade list and
\* marks, and the results returned so far.
PnlCallRows == {r \in PnlRows : r.volume > 0 /\ r.price > 0}

PnlHistories ==
    {<<>>} \cup {<<a>> : a \in PnlCallRows}
           \cup {<<a, b>> : a \in PnlCallRows, b \in PnlCallRows}

PnlCallFrame == UNCHANGED <<kill_file, pause_file, risk, botVars>>

\* payload = compute_pnl(trades, marks): the arguments are only read.
PnlCall ==
    /\ last_op.op = "compute_pnl_calls"
    /\ Len(last_op.outs) < 2
    /\ last_op' = [last_op EXCEPT
                      !.outs = Append(@, compute_pnl(last_op.trades, last_op.marks, now))]
    /\ UNCHANGED <<now, recorded_today>>
    /\ PnlCallFrame

\* A second of the wall clock that compute_pnl reads passes.
PnlClock ==
    /\ now < MaxNow
    /\ now' = now + 1
    /\ recorded_today' = IF (now + 1) \div DayLen # now \div DayLen
                         THEN 0 ELSE recorded_today
    /\ UNCHANGED last_op
    /\ PnlCallFrame

InitPnlCalls ==
    /\ saving = NoSave
    /\ pnl = pnl_init
    /\ now = 0
    /\ kill_file = FALSE
    /\ pause_file = FALSE
    /\ live_latch_file = FALSE
    /\ enable_live_file = FALSE
    /\ kcfg_mode = "dry_run"
    /\ config_file_mode = "dry_run"
    /\ risk = RiskEngine_init(1, 2, 2, 0, 0)
    /\ \E trades \in PnlHistories, marks \in PnlMarks :
          last_op = [op |-> "compute_pnl_calls", trades |-> trades,
                     marks |-> marks, outs |-> <<>>]
    /\ recorded_today = 0
    /\ manual_order = NoOrder
    /\ state = NoLedgerFile
    /\ trades_csv = <<>>
    /\ pc = "manual"
    /\ idx = 1
    /\ last_loop_ok = TRUE

NextPnlCalls ==
    \/ PnlCall
    \/ PnlClock

SpecPnlCalls == InitPnlCalls /\ [][NextPnlCalls]_vars

\* ---------------------------------------------------------------------------
\* The control loop with the files it reads and writes failing.  The body of a
\* cycle runs inside try/except; the status section after it does not.  saving
\* tells what a failed ledger write left in the ledger file, and pc is
\* "terminated" once an exception has left main.

\* The ways a ledger write or a trade-log write can fail after an executed order.
WriteFaults == {"ledger_write", "trade_log_write"}

\* What a failed _save_state(doc) leaves behind: the file untouched when open
\* failed, empty or cut short when the write failed after open truncated it.
FailedSave(doc) ==
    {NoSave, [doc |-> doc, written |-> "none"], [doc |-> doc, written |-> "part"]}

\* json.load in _load_state parses the file only when it holds a whole document.
LedgerReadable == FileContent[1] = "document"

\* get_cooldown_until at the top of the per-pair loop raises: _load_state could
\* not read the ledger file.  The except clause catches it.
LedgerReadError ==
    /\ pc = "strategy"
    /\ LoopError
    /\ last_op' = [op |-> "loop_error", why |-> "ledger_read"]
    /\ UNCHANGED <<pnl, saving, now, kill_file, pause_file, live_latch_file,
                   enable_live_file, kcfg_mode, config_file_mode, risk,
                   recorded_today, state, trades_csv, manual_order>>

\* An order of the strategy loop is executed and then set_cooldown's write of
\* the ledger, or append_trade, raises.  The except clause catches it; the
\* calls after the failed one are skipped.
StrategyWriteError ==
    /\ pc = "strategy"
    /\ LedgerReadable
    /\ LET pair_key == pair_keys[idx]
           pos == get_position(state, pair_key)
       IN  /\ get_cooldown_until(state, pair_key) <= now
           /\ ~is_killed /\ ~is_paused
           /\ \E trend \in Trends, m \in Quotes, ordermin \in Ordermins, fault \in WriteFaults :
                LET action == decide(trend, pos.has_position)
                    out == place_or_preview(safe_kcfg_for_orders, risk, pair_key, action,
                                            IF action = "sell" THEN pos.base_volume
                                            ELSE NoOverride,
                                            m, ordermin, "ok")
                IN  /\ action # "hold"
                    /\ ~out.raised
                    /\ out.od.reason \in Executed
                    /\ risk' = out.risk
                    /\ recorded_today' = recorded_today + (IF out.recorded THEN 1 ELSE 0)
                    /\ IF fault = "ledger_write"
                       THEN /\ saving' \in FailedSave(set_cooldown(state, pair_key, cd_seconds))
                            /\ UNCHANGED state
                       ELSE /\ state' = set_cooldown(state, pair_key, cd_seconds)
                            /\ UNCHANGED saving
                    /\ last_op' = [op |-> "loop_error", why |-> fault]
    /\ LoopError
    /\ UNCHANGED <<pnl, now, kill_file, pause_file, live_latch_file, enable_live_file,
                   kcfg_mode, config_file_mode, trades_csv, manual_order>>

\* A manual order is executed and then set_cooldown's write of the ledger, or
\* append_trade, raises.  The except clause catches it; the calls after the
\* failed one, clear_manual_order among them, are skipped.
ManualWriteError ==
    /\ pc = "manual"
    /\ LedgerReadable
    /\ manual_order # NoOrder
    /\ ~is_killed /\ ~is_paused
    /\ manual_order.side \in {"buy", "sell"}
    /\ manual_order.pair \in ConfiguredPairs
    /\ manual_order.notional_usd > 0
    /\ LET pair_key == manual_order.pair
           side == manual_order.side
           pos == get_position(state, pair_key)
       IN  /\ side = "sell" => pos.has_position
           /\ \E m \in Quotes, ordermin \in Ordermins, fault \in WriteFaults :
                LET out == place_or_preview(safe_kcfg_for_orders, risk, pair_key, side,
                                            IF side = "sell" THEN pos.base_volume
                                            ELSE NoOverride,
                                            m, ordermin, "ok")
                IN  /\ ~out.raised
                    /\ out.od.reason \in Executed
                    /\ risk' = out.risk
                    /\ recorded_today' = recorded_today + (IF out.recorded THEN 1 ELSE 0)
                    /\ IF fault = "ledger_write"
                       THEN /\ saving' \in FailedSave(set_cooldown(state, pair_key, cd_seconds))
                            /\ UNCHANGED state
                       ELSE /\ state' = set_cooldown(state, pair_key, cd_seconds)
                            /\ UNCHANGED saving
                    /\ last_op' = [op |-> "place_or_preview", manual |-> TRUE,
                                   pair |-> pair_key, side |-> side, mode |-> out.od.mode,
                                   notional_usd |-> out.od.notional_usd,
                                   volume |-> out.od.volume, reason |-> out.od.reason,
                                   sent |-> out.sent, raised |-> out.raised]
    /\ LoopError
    /\ UNCHANGED <<pnl, now, kill_file, pause_file, live_latch_file, enable_live_file,
                   kcfg_mode, config_file_mode, trades_csv, manual_order>>

\* The status section of a cycle and the poll sleep.  get_cooldown_until is
\* called for every pair outside the try block: when _load_state raises, the
\* exception leaves main.  write_bot_status swallows its own failures.
StatusSnapshot ==
    /\ pc = "finish"
    /\ \E read_ok \in (IF LedgerReadable THEN BOOLEAN ELSE {FALSE}), write_ok \in BOOLEAN :
          IF read_ok
          THEN /\ pc' = "manual"
               /\ last_loop_ok' = TRUE
               /\ last_op' = [op |-> "write_bot_status", last_loop_ok |-> last_loop_ok,
                              written |-> write_ok]
          ELSE /\ pc' = "terminated"
               /\ last_op' = [op |-> "uncaught", why |-> "ledger_read"]
               /\ UNCHANGED last_loop_ok
    /\ UNCHANGED <<pnl, saving, now, kill_file, pause_file, live_latch_file,
                   enable_live_file, kcfg_mode, config_file_mode, risk, recorded_today,
                   state, trades_csv, manual_order, idx>>

NextCycle ==
    \/ ManualOrderStep
    \/ StrategyStep
    \/ LedgerReadError
    \/ StrategyWriteError
    \/ ManualWriteError
    \/ StatusSnapshot
    \/ ApiManualExecute
    \/ Tick

SpecCycle == Init /\ [][NextCycle]_vars

\* ---------------------------------------------------------------------------
\* The control loop of a bot whose circuit breakers are configured and whose
\* trade log, kept from earlier runs, holds a realized loss.

\* The amounts of the control loop are whole dollars; compute_pnl counts in
\* units of 1 / Grain of 0.000001 USD.
UsdGrain == Grain * 1000000

\* _read_trades: the rows of the trade log as compute_pnl takes them.
read_trades(log) ==
    [i \in 1..Len(log) |->
        [pair |-> log[i].pair, side |-> log[i].side, volume |-> log[i].volume,
         price |-> log[i].price * UsdGrain]]

\* compute_and_write: compute_pnl over the trade log.
compute_and_write(log, marks, ts) == compute_pnl(read_trades(log), marks, ts)

\* The realized PnL and the max drawdown, in dollars, that PnLAnalytics finds
\* in the trade log.
TradeLogRealized ==
    compute_and_write(trades_csv, [p \in Pairs |-> NoMark], now).portfolio.realized_pnl_usd
        \div UsdGrain
TradeLogMaxDrawdown ==
    compute_and_write(trades_csv, [p \in Pairs |-> NoMark], now).portfolio.max_drawdown_usd
        \div UsdGrain

\* A trade log in which a lot bought at 2 was sold at 1.
LosingHistory ==
    <<[pair |-> "XBTUSD", side |-> "buy", volume |-> 1, price |-> 2,
       notional_usd |-> quote_notional_usd, mode |-> "dry_run"],
      [pair |-> "XBTUSD", side |-> "sell", volume |-> 1, price |-> 1,
       notional_usd |-> quote_notional_usd, mode |-> "dry_run"]>>

InitBreaker ==
    /\ saving = NoSave
    /\ pnl = pnl_init
    /\ now = 0
    /\ kill_file = FALSE
    /\ pause_file = FALSE
    /\ live_latch_file = FALSE
    /\ enable_live_file = FALSE
    /\ kcfg_mode \in Modes
    /\ config_file_mode \in Modes
    /\ risk = RiskEngine_init(1, 2, 2, 1, 1)
    /\ last_op = NoOp
    /\ recorded_today = 0
    /\ manual_order = NoOrder
    /\ state = EmptyState
    /\ trades_csv = LosingHistory
    /\ pc = "manual"
    /\ idx = 1
    /\ last_loop_ok = TRUE

\* The loop never stops: after time.sleep(poll) comes the next cycle.
BotStep == ManualOrderStep \/ StrategyStep \/ FinishCycle

SpecBreaker == InitBreaker /\ [][Next]_vars /\ WF_vars(BotStep)

\* ---------------------------------------------------------------------------
\* The control loop within one UTC day, under a cap of one trade per day: the
\* clock does not reach midnight, so every row of the trade log is of today.
InitDay ==
    /\ saving = NoSave
    /\ pnl = pnl_init
    /\ now = 0
    /\ kill_file = FALSE
    /\ pause_file = FALSE
    /\ live_latch_file = FALSE
    /\ enable_live_file = FALSE
    /\ kcfg_mode \in Modes
    /\ config_file_mode \in Modes
    /\ risk = RiskEngine_init(1, 1, 1, 0, 0)
    /\ last_op = NoOp
    /\ recorded_today = 0
    /\ manual_order = NoOrder
    /\ state = EmptyState
    /\ trades_csv = <<>>
    /\ pc = "manual"
    /\ idx = 1
    /\ last_loop_ok = TRUE

NextDay ==
    \/ ManualOrderStep
    \/ StrategyStep
    \/ FinishCycle
    \/ ApiManualExecute
    \/ ApiPause
    \/ ApiResume
    \/ ApiKill
    \/ ApiUnkill
    \/ OperatorLiveLatch
    \/ OperatorEnableLive

SpecDay == InitDay /\ [][NextDay]_vars

\* ---------------------------------------------------------------------------
\* The manual-order block in two steps, with the API running beside the bot:
\* try_read_manual_order reads the request file, and what main does with the
\* request it read, clear_manual_order included, comes later.  Between the two
\* last_op holds the request the bot has read.

\* manual = try_read_manual_order()
ManualRead ==
    /\ pc = "manual"
    /\ IF manual_order = NoOrder
       THEN /\ pc' = "strategy" /\ idx' = 1
            /\ last_op' = NoOp
       ELSE /\ pc' = "manual_read"
            /\ last_op' = [op |-> "try_read_manual_order", req |-> manual_order]
            /\ UNCHANGED idx
    /\ last_loop_ok' = TRUE
    /\ UNCHANGED <<pnl, saving, now, kill_file, pause_file, live_latch_file,
                   enable_live_file, kcfg_mode, config_file_mode, risk, recorded_today,
                   state, trades_csv, manual_order>>

\* The rest of the manual-order block, for the request that was read.
\* clear_manual_order removes the file at MANUAL_ORDER_PATH, whatever it holds.
ManualHandle ==
    /\ pc = "manual_read"
    /\ UNCHANGED <<pnl, saving, now, kill_file, pause_file, live_latch_file, enable_live_file,
                   kcfg_mode, config_file_mode>>
    /\ LET manual == last_op.req
       IN  IF ~is_killed /\ is_paused
           THEN /\ pc' = "strategy" /\ idx' = 1
                /\ last_op' = [op |-> "manual_order", outcome |-> "queued"]
                /\ UNCHANGED <<risk, recorded_today, state, trades_csv, manual_order,
                               last_loop_ok>>
           ELSE IF \/ is_killed
                   \/ manual.side \notin {"buy", "sell"}
                   \/ manual.pair \notin ConfiguredPairs
                   \/ manual.notional_usd <= 0
                   \/ /\ manual.side = "sell"
                      /\ ~get_position(state, manual.pair).has_position
           THEN /\ manual_order' = NoOrder
                /\ pc' = "strategy" /\ idx' = 1
                /\ last_op' = [op |-> "manual_order", outcome |-> "deleted"]
                /\ UNCHANGED <<risk, recorded_today, state, trades_csv, last_loop_ok>>
           ELSE \E net_ok \in BOOLEAN :
                IF net_ok
                THEN PlaceOrder(TRUE, manual.pair, manual.side,
                                IF manual.side = "sell"
                                THEN get_position(state, manual.pair).base_volume
                                ELSE NoOverride)
                ELSE /\ LoopError
                     /\ last_op' = NoOp
                     /\ UNCHANGED <<risk, recorded_today, state, trades_csv, manual_order>>

\* POST /manual/execute at any moment: the request file is written, or
\* replaced when one is there.
ApiManualExecuteAnyTime ==
    /\ config_file_mode = "dry_run"
    /\ \E req \in ManualRequests : manual_order' = req
    /\ UNCHANGED <<pnl, saving, now, kill_file, pause_file, live_latch_file, enable_live_file,
                   risk, recorded_today, kcfg_mode, config_file_mode, state,
                   trades_csv, pc, idx, last_loop_ok, last_op>>

\* The API's pause, resume, kill and unkill at any moment.
ApiMarkerFiles ==
    /\ \E paused_now \in BOOLEAN, killed_now \in BOOLEAN :
          pause_file' = paused_now /\ kill_file' = killed_now
    /\ UNCHANGED <<pnl, saving, now, live_latch_file, enable_live_file,
                   risk, recorded_today, kcfg_mode, config_file_mode, state,
                   trades_csv, manual_order, pc, idx, last_loop_ok, last_op>>

NextManual ==
    \/ ManualRead
    \/ ManualHandle
    \/ StrategyStep
    \/ FinishCycle
    \/ ApiManualExecuteAnyTime
    \/ ApiMarkerFiles

SpecManual == Init /\ [][NextManual]_vars

\* =================================================================== claims
\* Checked under SpecRisk: the engine driven by any caller.  last_op describes
\* the call that produced the current state, so the marker files and the clock
\* read by that call are those of the state.

CanTradeReturned == last_op.op = "can_trade"

Denied(rd, text) == ~rd.allowed /\ rd.reason[1] = text

\* C2: while the kill-switch marker is present, can_trade denies with the reason
\* 'kill switch active', for every pair and notional (0 included), whatever the
\* pause state and the daily counters are; the marker is the one read by the call.
C2_KillSwitchDenies ==
    CanTradeReturned /\ kill_file
        => last_op.rd = RiskDecision(FALSE, <<"kill switch active">>)

C2_Witness ==
    /\ CanTradeReturned
    /\ kill_file
    /\ last_op.notional_usd = 0
    /\ paused(risk)
    /\ risk.trades_today >= risk.max_trades_per_day
    /\ last_op.rd.reason = <<"kill switch active">>

\* C3: can_trade's checks run in the order kill switch, pause, per-trade notional
\* cap, global daily count, per-pair daily count; the reason returned is that of
\* the first failing check and the call allows only when none fails.
C3_Failing ==
    << kill_file,
       pause_file \/ risk.pause_reason # NoReason,
       last_op.notional_usd > risk.max_notional_usd_per_trade,
       risk.trades_today >= risk.max_trades_per_day,
       /\ last_op.pair # NoPair
       /\ risk.trades_today_by_pair[last_op.pair] >= risk.max_trades_per_day_per_pair >>

C3_Reasons ==
    << "kill switch active", "paused: ", "max_notional_usd_per_trade exceeded",
       "max trades/day reached", "max trades/day per pair reached" >>

C3_FirstFailingCheckWins ==
    CanTradeReturned =>
        LET failing == {i \in 1..5 : C3_Failing[i]}
        IN  IF failing = {}
            THEN last_op.rd = RiskDecision(TRUE, <<"ok">>)
            ELSE LET first == CHOOSE i \in failing : \A j \in failing : i <= j
                 IN  Denied(last_op.rd, C3_Reasons[first])

C3_Witness ==
    /\ CanTradeReturned
    /\ ~kill_file /\ ~paused(risk)
    /\ last_op.notional_usd > risk.max_notional_usd_per_trade
    /\ risk.trades_today >= risk.max_trades_per_day
    /\ last_op.pair # NoPair
    /\ risk.trades_today_by_pair[last_op.pair] >= risk.max_trades_per_day_per_pair
    /\ last_op.rd.reason = <<"max_notional_usd_per_trade exceeded">>

\* C4: for every notional strictly greater than max_notional_usd_per_trade,
\* can_trade denies, whatever the kill/pause state, the counters, the mode and
\* the pair are.
C4_OverCapDenied ==
    CanTradeReturned /\ last_op.notional_usd > risk.max_notional_usd_per_trade
        => ~last_op.rd.allowed

C4_Witness ==
    /\ CanTradeReturned
    /\ last_op.notional_usd = risk.max_notional_usd_per_trade + 1
    /\ ~kill_file /\ ~paused(risk)
    /\ risk.trades_today = 0
    /\ ~last_op.rd.allowed

\* C5: within one UTC day, once record_trade has been called at least
\* max_trades_per_day times, every later can_trade of that day denies; the first
\* can_trade or record_trade after the UTC date changes resets the counters
\* before they are read or written (so after either call the counters count the
\* record_trade calls of the current day only), and the rollover changes no
\* other field of the engine.
C5_CountersOfToday ==
    last_op.op \in {"can_trade", "record_trade"} =>
        /\ risk.day_key = utc_day_key
        /\ risk.trades_today = recorded_today
        /\ \A p \in Pairs : risk.trades_today_by_pair[p] <= recorded_today
        /\ recorded_today = 0 => \A p \in Pairs : risk.trades_today_by_pair[p] = 0

C5_DeniedAfterCap ==
    CanTradeReturned /\ recorded_today >= risk.max_trades_per_day
        => ~last_op.rd.allowed

C5_RolloverFrame ==
    last_op'.op \in {"can_trade", "record_trade"} =>
        risk' = [risk EXCEPT !.day_key = risk'.day_key,
                             !.trades_today = risk'.trades_today,
                             !.trades_today_by_pair = risk'.trades_today_by_pair]

C5_DailyCapAndRollover ==
    /\ [](C5_CountersOfToday /\ C5_DeniedAfterCap)
    /\ [][C5_RolloverFrame]_vars

C5_Witness ==
    /\ CanTradeReturned
    /\ utc_day_key > 0
    /\ recorded_today >= risk.max_trades_per_day
    /\ risk.pause_reason # NoReason
    /\ risk.portfolio_max_dd > 0
    /\ ~kill_file
    /\ ~last_op.rd.allowed

\* Checked under Spec: the control loop, the API and the operator.  After a
\* step that called place_or_preview, last_op holds what the call returned and
\* whether it sent an AddOrder request; the unprimed variables of that step are
\* the marker files, the clock and the engine the call started from.

OrderSent(op) == op.op = "place_or_preview" /\ op.sent

LatchMissing == ~enable_live_file \/ (REQUIRE_LIVE_LATCH /\ ~live_latch_file)

\* C1: place_or_preview sends an AddOrder request only when, in that same call,
\* the order mode is live, the kill-switch marker is absent, the risk engine is
\* not paused, the risk caps allow the trade and the live latch is present; and
\* whenever the configured mode is live but a latch marker is missing or the
\* kill switch is present, the control loop forces the order to dry_run or
\* places no order at all.  (The latch is two marker files: LIVE_LATCH, read by
\* main, and ENABLE_LIVE_TRADING, read by place_or_preview.)
C1_SentOnlyWhenAllowed ==
    OrderSent(last_op') =>
        LET s == roll_day_if_needed(risk)
        IN  /\ last_op'.mode = "live"
            /\ kcfg_mode = "live"
            /\ ~kill_file
            /\ ~pause_file /\ risk.pause_reason = NoReason
            /\ last_op'.notional_usd <= s.max_notional_usd_per_trade
            /\ s.trades_today < s.max_trades_per_day
            /\ s.trades_today_by_pair[last_op'.pair] < s.max_trades_per_day_per_pair
            /\ enable_live_file
            /\ (REQUIRE_LIVE_LATCH => live_latch_file)

C1_BlockedWithoutLatch ==
    kcfg_mode = "live" /\ (LatchMissing \/ kill_file) =>
        /\ ~OrderSent(last_op')
        /\ last_op'.op = "place_or_preview" =>
               \/ last_op'.mode = "dry_run"
               \/ last_op'.reason \notin Executed

C1_LiveOrderGate == [][C1_SentOnlyWhenAllowed /\ C1_BlockedWithoutLatch]_vars

C1_Witness ==
    /\ OrderSent(last_op)
    /\ last_op.reason = <<"LIVE order placed">>
    /\ last_op.mode = "live"
    /\ risk.trades_today = 1

\* C6: record_trade is called exactly once for every executed order (every
\* place_or_preview that returns 'dry-run' or 'LIVE order placed'), adding one to
\* the global and to the pair's daily counter, and never when the order is
\* blocked or AddOrder returns an error.
C6_Step ==
    last_op'.op = "place_or_preview" /\ ~last_op'.raised =>
        LET s == roll_day_if_needed(risk)
            p == last_op'.pair
        IN  IF last_op'.reason \in Executed
            THEN /\ risk'.trades_today = s.trades_today + 1
                 /\ risk'.trades_today_by_pair[p] = s.trades_today_by_pair[p] + 1
            ELSE /\ risk'.trades_today = s.trades_today
                 /\ risk'.trades_today_by_pair = s.trades_today_by_pair

C6_RecordedOncePerExecutedOrder == [][C6_Step]_vars

\* C6, the live half alone (what the code does): a 'LIVE order placed' records
\* the trade once and nothing else records.
C6_LiveStep ==
    last_op'.op = "place_or_preview" /\ ~last_op'.raised =>
        LET s == roll_day_if_needed(risk)
            p == last_op'.pair
        IN  IF last_op'.reason = <<"LIVE order placed">>
            THEN /\ risk'.trades_today = s.trades_today + 1
                 /\ risk'.trades_today_by_pair[p] = s.trades_today_by_pair[p] + 1
            ELSE /\ risk'.trades_today = s.trades_today
                 /\ risk'.trades_today_by_pair = s.trades_today_by_pair

C6_RecordedOncePerLiveOrder == [][C6_LiveStep]_vars

\* C7 to C10 are checked under SpecRisk.

\* C7 (as stated): once a circuit breaker has tripped, every later can_trade
\* denies with a reason containing 'circuit breaker'.
C7_Original ==
    CanTradeReturned /\ risk.pause_reason \in CircuitBreakerReasons
        => /\ Denied(last_op.rd, "paused: ")
           /\ last_op.rd.reason[2] \in CircuitBreakerReasons

\* C7 (amended): once a circuit breaker has tripped, the internal pause reason is
\* never cleared by any engine operation (update_portfolio_metrics with improved
\* numbers, record_trade, can_trade, a day rollover), every later can_trade
\* denies, and its reason contains 'circuit breaker' unless the kill-switch
\* marker is present, in which case it is 'kill switch active'.
C7_StickyState ==
    CanTradeReturned /\ risk.pause_reason \in CircuitBreakerReasons
        => IF kill_file
           THEN last_op.rd = RiskDecision(FALSE, <<"kill switch active">>)
           ELSE last_op.rd = RiskDecision(FALSE, <<"paused: ", risk.pause_reason>>)

C7_NeverCleared ==
    risk.pause_reason \in CircuitBreakerReasons
        => risk'.pause_reason \in CircuitBreakerReasons

C7_CircuitBreakerSticky ==
    /\ []C7_StickyState
    /\ [][C7_NeverCleared]_vars

C7_Witness ==
    /\ CanTradeReturned
    /\ risk.pause_reason = "circuit breaker: realized pnl"
    /\ risk.portfolio_realized = 0
    /\ risk.portfolio_max_dd = 0
    /\ utc_day_key # 0
    /\ recorded_today > 0
    /\ ~pause_file /\ ~kill_file
    /\ last_op.rd.reason = <<"paused: ", "circuit breaker: realized pnl">>

\* C8: update_portfolio_metrics moves the engine into the paused state if and
\* only if (max_daily_loss_usd > 0 and realized <= -max_daily_loss_usd) or
\* (max_drawdown_usd > 0 and max_drawdown >= max_drawdown_usd); a limit of 0
\* disables its breaker; when neither holds the call changes only the stored
\* metrics and leaves the pause state (reason and marker) as it was.
C8_Breached(r) ==
    \/ r.max_daily_loss_usd > 0 /\ r.portfolio_realized <= -r.max_daily_loss_usd
    \/ r.max_drawdown_usd > 0 /\ r.portfolio_max_dd >= r.max_drawdown_usd

C8_Step ==
    last_op'.op = "update_portfolio_metrics" =>
        IF C8_Breached(risk')
        THEN /\ risk'.pause_reason \in CircuitBreakerReasons
             /\ risk' = [risk EXCEPT !.portfolio_realized = risk'.portfolio_realized,
                                     !.portfolio_max_dd = risk'.portfolio_max_dd,
                                     !.pause_reason = risk'.pause_reason]
        ELSE /\ risk' = [risk EXCEPT !.portfolio_realized = risk'.portfolio_realized,
                                     !.portfolio_max_dd = risk'.portfolio_max_dd]
             /\ pause_file' = pause_file

C8_TripsIffBreached == [][C8_Step]_vars

C8_Witness ==
    /\ last_op.op = "update_portfolio_metrics"
    /\ risk.max_daily_loss_usd = 0
    /\ risk.portfolio_realized < 0
    /\ risk.max_drawdown_usd > 0
    /\ risk.portfolio_max_dd < risk.max_drawdown_usd
    /\ risk.pause_reason = NoReason
    /\ ~pause_file

\* C9: after the operator removes the pause marker (the API's resume), can_trade
\* of the running engine no longer denies with a pause reason.
C9_ResumeStep ==
    last_op.op = "resume" /\ last_op'.op = "can_trade"
        => last_op'.rd.reason[1] # "paused: "

C9_ResumeClearsPause == [][C9_ResumeStep]_vars

\* C10 (as stated): when a breaker trips and the write of the pause marker
\* fails, update_portfolio_metrics does not raise and the next can_trade denies
\* with the circuit-breaker reason.
C10_TrippedWriteFailed ==
    /\ last_op.op = "update_portfolio_metrics"
    /\ ~last_op.write_ok
    /\ C8_Breached(risk)

C10_Original ==
    C10_TrippedWriteFailed =>
        /\ ~last_op.raised
        /\ \A n \in 0..MaxNotional, m \in Modes, p \in Pairs \cup {NoPair} :
               LET rd == can_trade(risk, n, m, p).rd
               IN  /\ Denied(rd, "paused: ")
                   /\ rd.reason[2] \in CircuitBreakerReasons

\* C10 (amended): ... the next can_trade denies, with the circuit-breaker reason
\* unless the kill-switch marker is present (then with 'kill switch active').
C10_PauseSurvivesWriteFailure ==
    C10_TrippedWriteFailed =>
        /\ ~last_op.raised
        /\ \A n \in 0..MaxNotional, m \in Modes, p \in Pairs \cup {NoPair} :
               LET rd == can_trade(risk, n, m, p).rd
               IN  IF kill_file
                   THEN rd = RiskDecision(FALSE, <<"kill switch active">>)
                   ELSE /\ Denied(rd, "paused: ")
                        /\ rd.reason[2] \in CircuitBreakerReasons

C10_Witness ==
    /\ C10_TrippedWriteFailed
    /\ ~pause_file
    /\ ~kill_file
    /\ risk.pause_reason \in CircuitBreakerReasons

\* ------------------------------------------------------------------------
\* C11 to C19 are checked under Spec: the control loop and its ledger.

\* place_or_preview returned (it did not raise) in the step that ends here.
OrderReturned(op) == op.op = "place_or_preview" /\ ~op.raised

\* C11: whenever place_or_preview returns a reason other than 'dry-run' or
\* 'LIVE order placed', nothing is recorded: record_trade is not called, the
\* ledger (cooldowns and positions) and the trade log are as before, and the
\* loop goes on to the next instrument or the manual request is dropped.
C11_Step ==
    (OrderReturned(last_op') /\ last_op'.reason \notin Executed) =>
        /\ recorded_today' = recorded_today
        /\ risk' \in {risk, roll_day_if_needed(risk)}
        /\ state' = state
        /\ trades_csv' = trades_csv
        /\ IF last_op'.manual
           THEN manual_order' = NoOrder /\ pc' = "strategy"
           ELSE pc' = "finish" \/ idx' = idx + 1

C11_BlockedOrderChangesNothing == [][C11_Step]_vars

\* The exchange answered an AddOrder request with an error.
C11_Witness ==
    /\ OrderReturned(last_op)
    /\ last_op.sent
    /\ last_op.reason = <<"AddOrder error: ">>

\* place_or_preview returned 'dry-run' or 'LIVE order placed' in the step that
\* produced this state.
OrderExecuted(op) == OrderReturned(op) /\ op.reason \in Executed

\* C12: after every executed buy (a simulated dry-run fill or a successful
\* live placement) the ledger holds an open position for the instrument, and
\* after every executed sell it holds none.
C12_PositionFollowsExecutedOrder ==
    OrderExecuted(last_op) =>
        /\ last_op.side = "buy" => get_position(state, last_op.pair).has_position
        /\ last_op.side = "sell" => ~get_position(state, last_op.pair).has_position

\* C13: a buy executed for an instrument whose ledger position is already
\* open leaves the stored base_volume and entry_price of the open lot as they
\* were, for strategy buys and for manual buys.
C13_Step ==
    (/\ OrderExecuted(last_op')
     /\ last_op'.side = "buy"
     /\ get_position(state, last_op'.pair).has_position) =>
        /\ get_position(state', last_op'.pair).base_volume =
               get_position(state, last_op'.pair).base_volume
        /\ get_position(state', last_op'.pair).entry_price =
               get_position(state, last_op'.pair).entry_price

C13_SecondBuyKeepsOpenLot == [][C13_Step]_vars

\* C14: in every reachable ledger state and for every instrument,
\* get_position reports has_position exactly when base_volume > 0, and
\* base_volume and entry_price are never negative.
C14_PositionInvariant ==
    \A p \in ConfiguredPairs :
        LET pos == get_position(state, p)
        IN  /\ pos.has_position <=> pos.base_volume > 0
            /\ pos.base_volume >= 0
            /\ pos.entry_price >= 0

\* set_cooldown, set_position and clear_position have all acted: a simulated
\* buy and then a simulated sell, the second logged at the current state.
C14_Witness ==
    /\ OrderExecuted(last_op)
    /\ last_op.side = "sell"
    /\ Len(trades_csv) = 2
    /\ trades_csv[1].side = "buy"
    /\ ~state.positions[last_op.pair].present

\* ------------------------------------------------------------------------
\* C15 is checked under SpecLedger: the ledger functions called by any caller.

\* C15: get_position(p) after set_position(p, v, e) returns base_volume v and
\* entry_price e; get_position(p) after clear_position(p) returns
\* has_position = false with volume 0, also when p had no position before.
C15_LedgerRoundTrip ==
    /\ last_op.op = "set_position" =>
        /\ get_position(state, last_op.pair).base_volume = last_op.base_volume
        /\ get_position(state, last_op.pair).entry_price = last_op.entry_price
    /\ last_op.op = "clear_position" =>
        /\ ~get_position(state, last_op.pair).has_position
        /\ get_position(state, last_op.pair).base_volume = 0

\* A lot was written and read back while the other instrument is cooling down.
C15_Witness ==
    /\ last_op.op = "set_position"
    /\ last_op.base_volume = 2
    /\ last_op.entry_price = 1
    /\ \E q \in Pairs \ {last_op.pair} : state.cooldowns[q] > 0

\* ------------------------------------------------------------------------
\* C16 is checked under SpecSaveState: a ledger write taken step by step.

\* C16: at every instant during a set_position, clear_position or
\* set_cooldown, a process reading the ledger file sees a complete document,
\* the previous one or the new one, never an empty or half-written file.
C16_ReaderSeesWholeDocument ==
    last_op.op = "load" => last_op.seen[1] = "document"

\* ------------------------------------------------------------------------
\* C17 to C19 are checked under Spec.

\* C17: every executed order ('dry-run' or 'LIVE order placed'), from the
\* strategy loop or from a manual order, sets the instrument's cooldown_until
\* to the current time plus cooldown_seconds.
C17_ExecutedOrderSetsCooldown ==
    OrderExecuted(last_op) =>
        get_cooldown_until(state, last_op.pair) = now + cd_seconds

\* A second order, a manual one, was executed after the clock had advanced.
C17_Witness ==
    /\ OrderExecuted(last_op)
    /\ last_op.manual
    /\ Len(trades_csv) = 2
    /\ now > 0

\* The strategy loop handles the instrument it is at in this step.
StrategyStepTaken == pc = "strategy" /\ <<pc, idx>>' # <<pc, idx>>

\* C18: while now < cooldown_until for an instrument, the strategy loop skips
\* it: no market data is fetched (so no fetch can fail), no signal is
\* computed, can_trade is not called and no order is built in that cycle.
C18_Step ==
    (StrategyStepTaken /\ now < get_cooldown_until(state, pair_keys[idx])) =>
        /\ last_op' = [op |-> "skip", pair |-> pair_keys[idx], why |-> "cooldown"]
        /\ risk' = risk
        /\ recorded_today' = recorded_today
        /\ state' = state
        /\ trades_csv' = trades_csv
        /\ last_loop_ok' = last_loop_ok
        /\ pc' = "finish" \/ idx' = idx + 1

C18_CooldownSkipsInstrument == [][C18_Step]_vars

\* The strategy loop skipped an instrument with an open position for its
\* cooldown.
C18_Witness ==
    /\ last_op.op = "skip"
    /\ last_op.why = "cooldown"
    /\ get_position(state, last_op.pair).has_position
    /\ now < get_cooldown_until(state, last_op.pair)

\* The time before which the ledger holds the instrument back: cd_seconds
\* after its last executed order (C17), 0 when it has none.
CoolingUntil(st, pair) == st.cooldowns[pair]

\* C19 as stated: between two executed orders on the same instrument at least
\* cooldown_seconds elapse, whichever path (strategy loop or manual order)
\* executes them.
C19_Step ==
    OrderExecuted(last_op') => now >= CoolingUntil(state, last_op'.pair)

C19_Original == [][C19_Step]_vars

\* C19, amended: an order executed by the strategy loop comes at least
\* cooldown_seconds after the instrument's previous executed order; a manual
\* order is not held back by the cooldown.
C19_StrategyStep ==
    (OrderExecuted(last_op') /\ ~last_op'.manual) =>
        now >= CoolingUntil(state, last_op'.pair)

C19_StrategyOrderWaits == [][C19_StrategyStep]_vars

\* The strategy loop executed an order after an earlier one on the same
\* instrument, once the cooldown was over.
C19_Witness ==
    /\ OrderExecuted(last_op)
    /\ ~last_op.manual
    /\ Len(trades_csv) = 2
    /\ trades_csv[1].pair = last_op.pair
    /\ now >= cd_seconds

\* ------------------------------------------------------------------------
\* C20 is checked under SpecOrder: build_order called with any inputs.

\* The checks of build_order, each taken on its own for the inputs of a call.
C20_SpreadFails(op) ==
    PctAbove(calc_spread_pct(op.m.bid, op.m.ask), op.cfg.max_spread_pct)

C20_SlippageFails(op) ==
    PctAbove(slippage_pct(op.m.bid, op.m.ask, op.m.last), op.cfg.max_slippage_pct)

C20_SizingFails(op) ==
    IF op.side = "buy" THEN op.m.last <= 0
    ELSE op.base_volume_override = NoOverride \/ op.base_volume_override <= 0

C20_MinimumFails(op) ==
    op.ordermin # NoOrdermin /\ op.od.volume < op.ordermin

\* C20: build_order checks spread, then slippage, then sizing, then the
\* minimum order size; the reason names the first check that fails, and a
\* spread or slippage block carries no computed volume and no price.
C20_FirstFailingCheckNamed ==
    last_op.op = "build_order" =>
        /\ last_op.od.reason =
              IF C20_SpreadFails(last_op) THEN <<"blocked: spread">>
              ELSE IF C20_SlippageFails(last_op) THEN <<"blocked: slippage">>
              ELSE IF C20_SizingFails(last_op)
                   THEN IF last_op.side = "buy" THEN <<"blocked: invalid last">>
                        ELSE <<"blocked: no position volume">>
              ELSE IF C20_MinimumFails(last_op) THEN <<"blocked: below ordermin">>
              ELSE <<"ok">>
        /\ (C20_SpreadFails(last_op) \/ C20_SlippageFails(last_op)) =>
              last_op.od.volume = 0 /\ last_op.od.price = NoPrice

\* The slippage check and the sizing check both fail and the spread check
\* does not.
C20_Witness ==
    /\ last_op.op = "build_order"
    /\ ~C20_SpreadFails(last_op)
    /\ C20_SlippageFails(last_op)
    /\ C20_SizingFails(last_op)
    /\ last_op.od.reason = <<"blocked: slippage">>

\* ------------------------------------------------------------------------
\* C21 and C22 are checked under SpecOrder.

C22_NonPositiveMidBlocks ==
    (last_op.op = "build_order" /\ last_op.m.bid + last_op.m.ask <= 0) =>
        /\ calc_spread_pct(last_op.m.bid, last_op.m.ask) = <<Sentinel, 1>>
        /\ slippage_pct(last_op.m.bid, last_op.m.ask, last_op.m.last) = <<Sentinel, 1>>
        /\ last_op.od.reason # <<"ok">>

\* ------------------------------------------------------------------------
\* C23 to C25, C27 and C28 are checked under SpecPnl: compute_pnl on any trade
\* list, walked one trade at a time.

PnlWalked(op) == op.op = "pnl_walk"

\* The sell of the step leaves every PnL figure, counter and equity point as
\* it was.
C23_NothingChanges ==
    /\ pnl'.portfolio = pnl.portfolio
    /\ pnl'.equity_points = pnl.equity_points
    /\ pnl'.realized_equity = pnl.realized_equity
    /\ pnl'.max_dd = pnl.max_dd
    /\ pnl'.open_pos = pnl.open_pos
    /\ \A p \in Pairs : pnl'.per_pair[p] = [pnl.per_pair[p] EXCEPT !.seen = pnl'.per_pair[p].seen]

\* The sell of the step closes the open lot of its pair with the volume vol.
C23_Closes(t, vol) ==
    LET gain == (t.price - pnl.open_pos[t.pair].entry_px) * vol
    IN  /\ pnl'.per_pair[t.pair].realized_pnl_usd =
               pnl.per_pair[t.pair].realized_pnl_usd + gain
        /\ pnl'.portfolio.realized_pnl_usd = pnl.portfolio.realized_pnl_usd + gain
        /\ pnl'.per_pair[t.pair].trades_closed = pnl.per_pair[t.pair].trades_closed + 1
        /\ pnl'.portfolio.trades_closed = pnl.portfolio.trades_closed + 1
        /\ pnl'.open_pos[t.pair].vol = 0
        /\ ~pnl'.per_pair[t.pair].open_position
        /\ pnl'.per_pair[t.pair].open_volume = 0

\* C23 as stated: a sell for an instrument with an open lot adds
\* (sell_price - entry_price) x min(open_volume, sell_volume) to realized PnL
\* (per instrument and portfolio), counts one closed trade and clears the lot;
\* a sell for an instrument with no open lot changes nothing.
C23_OriginalStep ==
    (PnlWalked(last_op') /\ last_op'.t.side = "sell") =>
        IF pnl.open_pos[last_op'.t.pair].vol > 0
        THEN C23_Closes(last_op'.t, Min(pnl.open_pos[last_op'.t.pair].vol, last_op'.t.volume))
        ELSE C23_NothingChanges

C23_Step ==
    /\ (PnlWalked(last_op') /\ last_op'.t.side = "sell") =>
          IF pnl.open_pos[last_op'.t.pair].vol > 0
          THEN C23_Closes(last_op'.t,
                          IF last_op'.t.volume > 0
                          THEN Min(pnl.open_pos[last_op'.t.pair].vol, last_op'.t.volume)
                          ELSE pnl.open_pos[last_op'.t.pair].vol)
          ELSE C23_NothingChanges
    /\ LET out == compute_pnl(<<[pair |-> "XBTUSD", side |-> "buy", volume |-> 1, price |-> 1],
                                [pair |-> "XBTUSD", side |-> "sell", volume |-> 1, price |-> 4]>>,
                              [p \in Pairs |-> NoMark], now)
       IN  /\ out.portfolio.realized_pnl_usd = 3
           /\ out.portfolio.trades_closed = 1
           /\ out.portfolio.wins = 1
           /\ out.portfolio.max_drawdown_usd = 0

C24_Step ==
    (PnlWalked(last_op') /\ last_op'.t.side = "buy") =>
        LET t == last_op'.t
        IN  /\ IF pnl.open_pos[t.pair].vol > 0
               THEN /\ pnl'.open_pos = pnl.open_pos
                    /\ pnl'.per_pair[t.pair] = [pnl.per_pair[t.pair] EXCEPT !.seen = TRUE]
               ELSE /\ pnl'.open_pos[t.pair] = [vol |-> t.volume, entry_px |-> t.price]
                    /\ pnl'.per_pair[t.pair].open_position
                    /\ pnl'.per_pair[t.pair].open_volume = t.volume
                    /\ pnl'.per_pair[t.pair].entry_price = t.price
            /\ pnl'.portfolio = pnl.portfolio
            /\ pnl'.equity_points = pnl.equity_points
            /\ pnl'.max_dd = pnl.max_dd
            /\ pnl'.per_pair[t.pair].realized_pnl_usd = pnl.per_pair[t.pair].realized_pnl_usd
            /\ \A p \in Pairs \ {t.pair} :
                  pnl'.per_pair[p] = pnl.per_pair[p] /\ pnl'.open_pos[p] = pnl.open_pos[p]

C24_BuyOpensOnlyWhenNoneOpen == [][C24_Step]_vars

\* A buy at another price and volume arrived while a lot was open and was
\* ignored.
C24_Witness ==
    /\ PnlWalked(last_op)
    /\ last_op.t.side = "buy"
    /\ pnl.open_pos[last_op.t.pair].vol > 0
    /\ pnl.open_pos[last_op.t.pair].vol # last_op.t.volume
    /\ pnl.open_pos[last_op.t.pair].entry_px # last_op.t.price

\* The largest member of a non-empty set of integers.
MaxOfSet(S) == CHOOSE x \in S : \A y \in S : y <= x

\* The running maximum of the cumulative realized PnL after the first i
\* closes; the cumulative realized PnL before the first close is 0.
PeakSoFar(points, i) == MaxOfSet({0} \cup {points[j] : j \in 1..i})

\* The largest distance of the equity below its peak over the closes walked.
DrawdownSoFar(points) ==
    MaxOfSet({0} \cup {PeakSoFar(points, i) - points[i] : i \in 1..Len(points)})

C25_State ==
    /\ pnl.peak_equity = PeakSoFar(pnl.equity_points, Len(pnl.equity_points))
    /\ pnl.max_dd = DrawdownSoFar(pnl.equity_points)
    /\ pnl.max_dd >= 0
    /\ Len(pnl.equity_points) > 0 =>
          pnl.equity_points[Len(pnl.equity_points)] = pnl.portfolio.realized_pnl_usd
    /\ last_op.op = "compute_pnl" =>
          last_op.out.portfolio.max_drawdown_usd = pair_round(pnl.max_dd)

C25_Step ==
    PnlWalked(last_op') =>
        /\ pnl'.max_dd >= pnl.max_dd
        /\ pnl'.peak_equity >= pnl.peak_equity

\* C25: as the closes are walked in timestamp order, the peak is the running
\* maximum of the cumulative realized PnL (which is 0 before the first close),
\* the max drawdown is the maximum over the closes so far of (peak so far -
\* current equity), it is non-negative, and it never decreases when a further
\* trade is walked.
C25_DrawdownTracksPeak == [](C25_State) /\ [][C25_Step]_vars

\* Two closes were walked, the first at a gain and the second at a loss, so
\* that the drawdown is positive below a positive peak.
C25_Witness ==
    /\ Len(pnl.equity_points) = 2
    /\ pnl.equity_points[1] > 0
    /\ pnl.equity_points[2] < pnl.equity_points[1]
    /\ pnl.max_dd > 0
    /\ pnl.peak_equity > 0

\* Checked under SpecPnlCalls.

C26_State ==
    (last_op.op = "compute_pnl_calls" /\ Len(last_op.outs) = 2) =>
        /\ [last_op.outs[1] EXCEPT !.ts = 0] = [last_op.outs[2] EXCEPT !.ts = 0]
        /\ last_op.outs[1].ts <= last_op.outs[2].ts
        /\ last_op.outs[2].ts <= now

C26_Step ==
    (last_op'.op = "compute_pnl_calls" /\ last_op.op = "compute_pnl_calls") =>
        /\ last_op'.trades = last_op.trades
        /\ last_op'.marks = last_op.marks

PnlReturned == last_op.op = "compute_pnl"

SeenPairs(out) == {p \in Pairs : out.pairs[p].seen}

\* The sum over the instruments of an output of one of their figures.
SumPairs(out, field) ==
    SumOver([p \in Pairs |-> IF out.pairs[p].seen THEN out.pairs[p][field] ELSE 0], Pairs)

\* The distance between two amounts.
Dist(a, b) == IF a >= b THEN a - b ELSE b - a

\* The original statement of C28, on the figures of the output: win_rate is
\* wins / trades_closed (0 when none closed), wins + losses = trades_closed,
\* net = realized + unrealized, and each portfolio count and total is the sum
\* of the per-instrument values.
C28_Original ==
    PnlReturned =>
        LET out == last_op.out
            pf == out.portfolio
        IN  /\ \A p \in SeenPairs(out) :
                  LET st == out.pairs[p]
                  IN  /\ st.wins + st.losses = st.trades_closed
                      /\ st.win_rate * st.trades_closed = st.wins * 1000000
                      /\ st.net_pnl_usd = st.realized_pnl_usd + st.unrealized_pnl_usd
            /\ pf.wins + pf.losses = pf.trades_closed
            /\ pf.win_rate * pf.trades_closed = pf.wins * 1000000
            /\ pf.net_pnl_usd = pf.realized_pnl_usd + pf.unrealized_pnl_usd
            /\ pf.wins = SumPairs(out, "wins")
            /\ pf.losses = SumPairs(out, "losses")
            /\ pf.trades_closed = SumPairs(out, "trades_closed")
            /\ pf.realized_pnl_usd = SumPairs(out, "realized_pnl_usd")
            /\ pf.unrealized_pnl_usd = SumPairs(out, "unrealized_pnl_usd")
            /\ pf.net_pnl_usd = SumPairs(out, "net_pnl_usd")

\* C28, amended: per instrument and for the portfolio, wins + losses =
\* trades_closed and win_rate is wins / trades_closed rounded to 6 decimals
\* (0 when trades_closed is 0); each portfolio count is the sum of the
\* per-instrument counts; every PnL figure is the 6-decimal rounding of its
\* unrounded value, net being realized + unrealized and each portfolio total
\* the sum of the per-instrument values before rounding, so that the reported
\* net is within 0.000001 of reported realized + unrealized and each reported
\* portfolio total within 0.000001 of the sum of the two instruments' figures.
C28_RollupsUpToRounding ==
    PnlReturned =>
        LET out == last_op.out
            pf == out.portfolio
            u == [p \in Pairs |-> pnl_unrealized(pnl, last_op.marks, p)]
            r == [p \in Pairs |-> pnl.per_pair[p].realized_pnl_usd]
        IN  /\ \A p \in SeenPairs(out) :
                  LET st == out.pairs[p]
                  IN  /\ st.wins + st.losses = st.trades_closed
                      /\ st.win_rate = IF st.trades_closed > 0
                                       THEN pair_round_ratio(st.wins, st.trades_closed)
                                       ELSE 0
                      /\ st.realized_pnl_usd = pair_round(r[p])
                      /\ st.unrealized_pnl_usd = pair_round(u[p])
                      /\ st.net_pnl_usd = pair_round(r[p] + u[p])
                      /\ Dist(st.net_pnl_usd, st.realized_pnl_usd + st.unrealized_pnl_usd) <= Grain
            /\ \A p \in Pairs \ SeenPairs(out) : r[p] = 0 /\ u[p] = 0
            /\ pf.wins + pf.losses = pf.trades_closed
            /\ pf.win_rate = IF pf.trades_closed > 0
                             THEN pair_round_ratio(pf.wins, pf.trades_closed) ELSE 0
            /\ pf.wins = SumPairs(out, "wins")
            /\ pf.losses = SumPairs(out, "losses")
            /\ pf.trades_closed = SumPairs(out, "trades_closed")
            /\ pf.realized_pnl_usd = pair_round(SumOver(r, Pairs))
            /\ pf.unrealized_pnl_usd = pair_round(SumOver(u, Pairs))
            /\ pf.net_pnl_usd = pair_round(SumOver(r, Pairs) + SumOver(u, Pairs))
            /\ Dist(pf.net_pnl_usd, pf.realized_pnl_usd + pf.unrealized_pnl_usd) <= Grain
            /\ Dist(pf.realized_pnl_usd, SumPairs(out, "realized_pnl_usd")) <= Grain
            /\ Dist(pf.unrealized_pnl_usd, SumPairs(out, "unrealized_pnl_usd")) <= Grain
            /\ Dist(pf.net_pnl_usd, SumPairs(out, "net_pnl_usd")) <= Grain

\* compute_pnl returned with one trade closed at a gain and a lot open below
\* its mark, and the reported net is not the sum of the reported realized and
\* unrealized PnL.
C28_Witness ==
    /\ PnlReturned
    /\ last_op.out.portfolio.trades_closed = 1
    /\ last_op.out.portfolio.wins = 1
    /\ last_op.out.portfolio.realized_pnl_usd > 0
    /\ last_op.out.portfolio.unrealized_pnl_usd > 0
    /\ last_op.out.portfolio.net_pnl_usd #
          last_op.out.portfolio.realized_pnl_usd + last_op.out.portfolio.unrealized_pnl_usd

\* Checked under Spec.

\* C29: the trade log is append-only with exactly one row per executed order:
\* an order returned as 'dry-run' or 'LIVE order placed' appends one row, of
\* its pair, side, volume and mode, after the rows already written; every
\* other step of the control loop, a blocked order among them, leaves the log
\* as it is, so that no row already written is rewritten, truncated or removed.
C29_Step ==
    /\ IF OrderExecuted(last_op')
       THEN /\ Len(trades_csv') = Len(trades_csv) + 1
            /\ SubSeq(trades_csv', 1, Len(trades_csv)) = trades_csv
            /\ LET row == trades_csv'[Len(trades_csv')]
               IN  /\ row.pair = last_op'.pair
                   /\ row.side = last_op'.side
                   /\ row.volume = last_op'.volume
                   /\ row.mode = last_op'.mode
       ELSE trades_csv' = trades_csv

C30_Step ==
    (pc = "finish" /\ pc' # "finish") =>
        /\ pc' = "manual"
        /\ last_op'.op = "write_bot_status"
        /\ last_op'.last_loop_ok = last_loop_ok

C30_NoFailureTerminates == [][C30_Step]_vars

\* Checked under SpecBreaker.

\* The trade log's realized loss has reached max_daily_loss_usd, or its
\* drawdown the drawdown limit.
BreakerDue ==
    \/ risk.max_daily_loss_usd > 0 /\ TradeLogRealized <= -risk.max_daily_loss_usd
    \/ risk.max_drawdown_usd > 0 /\ TradeLogMaxDrawdown >= risk.max_drawdown_usd

\* C31: the control loop runs PnLAnalytics over the trade log and feeds the
\* result into update_portfolio_metrics, so that once the trade log's realized
\* loss has reached max_daily_loss_usd (or its drawdown the drawdown limit)
\* the engine eventually holds the log's figures and is paused.
C31_BreakerEventuallyPauses ==
    BreakerDue ~> (/\ risk.portfolio_realized = TradeLogRealized
                   /\ risk.pause_reason # NoReason)

\* Checked under SpecCycle.

\* C32: a queued manual order is one-shot: the cycle that executes it removes
\* the request file, so that the request cannot be executed again, also when
\* the ledger write or the trade-log append that follows the execution fails.
C32_Step ==
    (OrderExecuted(last_op') /\ last_op'.manual) => manual_order' = NoOrder

C32_ManualOrderOneShot == [][C32_Step]_vars

\* Checked under Spec.

\* C33: manual execution is dry-run only: no manual order results in a live
\* AddOrder request, also when the configuration file read by the API says
\* dry_run and the configuration the bot loaded at its start says live.
C33_ManualOrderNeverLive ==
    (last_op.op = "place_or_preview" /\ last_op.manual) => ~last_op.sent

\* Checked under SpecDay, where every executed order is of the same UTC day
\* and has its row in the trade log.

\* The rows of the trade log for the pair p.
RowsOf(p) == SelectSeq(trades_csv, LAMBDA row : row.pair = p)

\* C34: the daily trade caps apply to dry-run as well as live: the number of
\* orders executed within one UTC day never exceeds max_trades_per_day, and
\* the number executed for one pair never exceeds max_trades_per_day_per_pair.
C34_DailyCapsInEveryMode ==
    /\ Len(trades_csv) <= risk.max_trades_per_day
    /\ \A p \in Pairs : Len(RowsOf(p)) <= risk.max_trades_per_day_per_pair

\* Checked under Spec.

\* The manual-order block of a cycle runs in this step and finds a request.
ManualOrderRead == pc = "manual" /\ pc' # "manual" /\ manual_order # NoOrder

\* Nothing is executed or recorded in this step.
NothingExecuted ==
    /\ last_op'.op = "manual_order"
    /\ UNCHANGED <<risk, recorded_today, state, trades_csv>>

\* The original statement of C35: a manual order read while the pause file is
\* present is left queued and unexecuted.
C35_OriginalStep ==
    (ManualOrderRead /\ pause_file) => (manual_order' = manual_order /\ NothingExecuted)

C35_Original == [][C35_OriginalStep]_vars

\* C35, amended: a manual order read while the kill switch is present is
\* deleted without being executed, whether the pause file is present or not;
\* one read while the pause file is present and the kill switch is not is left
\* queued and unexecuted; one read while neither is present is processed in
\* that cycle: it is rejected and deleted, or handed to place_or_preview, or
\* the cycle ends in a caught error with the request still queued.
C35_Step ==
    ManualOrderRead =>
        IF kill_file
        THEN manual_order' = NoOrder /\ NothingExecuted /\ last_op'.outcome = "deleted"
        ELSE IF pause_file
        THEN manual_order' = manual_order /\ NothingExecuted /\ last_op'.outcome = "queued"
        ELSE \/ manual_order' = NoOrder /\ NothingExecuted /\ last_op'.outcome = "deleted"
             \/ last_op'.op = "place_or_preview" /\ last_op'.manual
             \/ ~last_loop_ok' /\ manual_order' = manual_order

C35_KillDeletesPauseKeeps == [][C35_Step]_vars

\* A manual order was read while the pause file was present and the kill
\* switch was not, and was left queued.
C35_Witness ==
    /\ last_op = [op |-> "manual_order", outcome |-> "queued"]
    /\ pause_file /\ ~kill_file
    /\ manual_order # NoOrder

\* Checked under SpecLedger.

\* C36: every ledger mutation changes only its own entry: set_position(p)
\* and clear_position(p) leave every other instrument's position and all
\* cooldowns as they were, and set_cooldown(p) leaves all positions and every
\* other instrument's cooldown as they were.
C36_Step ==
    /\ last_op'.op \in {"set_position", "clear_position"} =>
          /\ \A q \in Pairs \ {last_op'.pair} : state'.positions[q] = state.positions[q]
          /\ state'.cooldowns = state.cooldowns
    /\ last_op'.op = "set_cooldown" =>
          /\ state'.positions = state.positions
          /\ \A q \in Pairs \ {last_op'.pair} : state'.cooldowns[q] = state.cooldowns[q]

C36_MutationChangesOwnEntryOnly == [][C36_Step]_vars

\* A position was cleared while the other instrument held an open position
\* and a cooldown, and the cleared instrument a cooldown of its own.
C36_Witness ==
    /\ last_op.op = "clear_position"
    /\ last_op.had
    /\ state.cooldowns[last_op.pair] > 0
    /\ \E q \in Pairs \ {last_op.pair} :
          /\ get_position(state, q).has_position
          /\ state.cooldowns[q] > 0

\* Checked under SpecManual.

\* C37: the bot never deletes a manual order it has not read: when the bot
\* removes the request file, the file holds the request that the bot read.
C37_Step ==
    (pc = "manual_read" /\ manual_order # NoOrder /\ manual_order' = NoOrder) =>
        manual_order = last_op.req

C37_DeletesOnlyWhatItRead == [][C37_Step]_vars


\* Checked under Spec.

\* The lot that compute_pnl, replaying the trade log, leaves open for a pair.
ReplayedLot(p) == pnl_walk_all(pnl_init, read_trades(trades_csv)).open_pos[p]

\* C38: in dry-run mode with simulated fills, after every completed cycle and
\* for every instrument, the ledger has a position exactly when the replay of
\* the trade log leaves a lot open, and then with that lot's volume and entry
\* price.
C38_LedgerMatchesReplay ==
    (kcfg_mode = "dry_run" /\ simulate /\ pc = "manual") =>
        \A p \in ConfiguredPairs :
            LET pos == get_position(state, p)
                lot == ReplayedLot(p)
            IN  /\ pos.has_position = (lot.vol > 0)
                /\ lot.vol > 0 =>
                      /\ pos.base_volume = lot.vol
                      /\ pos.entry_price * UsdGrain = lot.entry_px


\* Checked under Spec.

\* C39: every order that is executed, returned as 'dry-run' or as 'LIVE order
\* placed', carries a rounded volume greater than zero.
C39_ExecutedVolumePositive == OrderExecuted(last_op) => last_op.volume > 0


\* Checked under Spec.

\* C40: a sell of the ledger's full position volume, for a position that was
\* opened by a buy within max_notional_usd_per_trade, is never denied with
\* 'max_notional_usd_per_trade exceeded'.  Every buy has the notional
\* quote_notional_usd, which the configured cap admits.
C40_PositionCanBeClosed ==
    (/\ last_op.op = "place_or_preview"
     /\ last_op.side = "sell"
     /\ quote_notional_usd <= risk.max_notional_usd_per_trade) =>
        last_op.reason # <<"blocked by risk: ", "max_notional_usd_per_trade exceeded">>

====
